---- MODULE Spec2Model ----
(***************************************************************************)
(* Gold price monitor: the multi-source acquisition core.                  *)
(*                                                                         *)
(* Spec        the circuit-breaking source selection (fetch_gold_price)    *)
(*             run by the background loop and by the GET /api/price        *)
(*             handler, together with the history buffer they append to.   *)
(* SpecHistory the history buffer operations on their own (deque append,   *)
(*             load_data, cleanup_expired_data) over arbitrary contents.   *)
(* SpecValuation, SpecRefresh, SpecFunds, SpecHoldings, SpecPortfolio,     *)
(* SpecInput   the fund domain: build_holdings_response, the single-flight *)
(*             refreshers, GET /api/funds, GET /api/holdings,              *)
(*             fetch_fund_portfolio and the POST handlers, each called by  *)
(*             two concurrent requests.                                    *)
(* SpecEdit    POST and DELETE /api/holdings over arbitrary holding lists. *)
(* SpecFlags   the refreshers with a worker body that may raise;           *)
(*             SpecFlagsFair adds the scheduling of the started threads.   *)
(* SpecRoundTrip  save_data followed by load_data after a restart.         *)
(* SpecHolidays   get_holidays with its two cache levels and its fallback. *)
(*                                                                         *)
(* Amounts are integers in 1/1000 yuan, times are integer seconds.         *)
(***************************************************************************)
EXTENDS Integers, Sequences, FiniteSets, TLC

VARIABLES
    clock,           \* wall clock: time.time() / datetime.now().timestamp()
    ticks,           \* number of clock advances so far (bounded)
    calls,           \* number of fetch_gold_price calls started (bounded)
    sources,         \* DATA_SOURCES: enabled, fail_count, mute_until per source
    lock_owner,      \* holder of the RLock `lock`, or NoProc
    pc,              \* position of each thread
    idx,             \* fetch_gold_price: position in enabled_sources
    now_ts,          \* fetch_gold_price: local now_ts
    muted_count,     \* fetch_gold_price: local muted_count
    reg,             \* value of source.get('fail_count', 0) read at line 447
    data,            \* fetch_gold_price: local data (<<>> is None)
    result,          \* what fetch_gold_price returned: data and reason
    bg_wake,         \* time at which the background loop's time.sleep returns
    price_history,   \* deque(maxlen=MAX_HISTORY_SIZE) of quotes
    manual_records,  \* list of user records (timestamps only)
    consec,          \* history: failed handler returns per source since its
                     \*          last success or last completed run of three
    third,           \* history: the attempt in progress is such a third failure
    seen_muted,      \* history: sources the call found with mute_until > now_ts
    invoked,         \* history: sources whose handler the call invoked
    failed,          \* history: sources whose handler returned nothing in the call
    wrote,           \* history: sources whose breaker fields the call wrote
    last,            \* history (SpecHistory): the last buffer operation
    summary,         \* what get_24h_summary returned last (<<>> is None)
    calendar,        \* the holiday calendars of the two markets
    status,          \* what get_trading_status / get_fund_trading_status returned last
    last_trading_status, \* background_fetch_loop: local last_trading_status (<<>> is None)
    interval,        \* background_fetch_loop: local interval
    events,          \* history: the events the loop reported, with the poll that did
    observed,        \* history: the phases the loop's status reads returned
    fund_watchlist,  \* list of fund codes
    fund_cache,      \* dict code -> quote (<<>> is no entry)
    fund_holdings,   \* list of holdings: code, name, cost_price, shares, note
    holdings_cache,  \* timestamp and response (<<>> is None)
    fund_refreshing, \* flag of refresh_fund_cache_async
    holdings_refreshing, \* flag of refresh_holdings_cache_async
    fund_portfolios, \* dict code -> persisted composition (<<>> is no entry)
    saved,           \* the document save_data wrote last: its fund part, or
                     \* (SpecRoundTrip) the whole of data.json
    frames,          \* the request each client thread is serving, with its locals
    workers,         \* the refresh threads that were started and have not ended
    served,          \* number of requests started (bounded)
    fetched,         \* history: the upstream fetches issued
    alert_settings,  \* dict of the alert thresholds: high, low, enabled
    memory_cache     \* HolidayCacheManager._memory_cache: the cached years, the
                     \* least recently used first

vars == <<clock, ticks, calls, sources, lock_owner, pc, idx, now_ts,
          muted_count, reg, data, result, bg_wake, price_history, manual_records,
          consec, third, seen_muted, invoked, failed, wrote, last,
          summary, calendar, status, last_trading_status, interval, events,
          observed, fund_watchlist, fund_cache, fund_holdings, holdings_cache,
          fund_refreshing, holdings_refreshing, fund_portfolios, saved, frames,
          workers, served, fetched, alert_settings, memory_cache>>

fetch_vars == <<idx, now_ts, muted_count, reg, data, result>>
ghost_vars == <<consec, third, seen_muted, invoked, failed, wrote>>
hours_vars == <<calendar, status>>
sched_vars == <<last_trading_status, interval, events, observed>>
fund_vars == <<fund_watchlist, fund_cache, fund_holdings, holdings_cache,
               fund_refreshing, holdings_refreshing, fund_portfolios, saved,
               frames, workers, served, fetched, alert_settings, memory_cache>>
aux_vars == <<summary, hours_vars, sched_vars, fund_vars>>
\* everything but the fund state, the clock and the last operation
gold_vars == <<ticks, calls, sources, lock_owner, pc, fetch_vars, ghost_vars, bg_wake,
               price_history, manual_records, summary, hours_vars, sched_vars,
               alert_settings, memory_cache>>

----------------------------------------------------------------------------
(* Bounds of the model *)

\* number of entries of DATA_SOURCES that are modelled (the source lists four)
NumSources == 2
\* clock advances in one behaviour
MaxTicks == 2
\* fetch_gold_price calls in one behaviour
MaxCalls == 4
\* capacity of the history deque; the source sets 20000, the model keeps the
\* name and checks a small capacity
MAX_HISTORY_SIZE == 2

(* Program constants *)
MAX_FAIL_COUNT == 3
MUTE_DURATION == 60
STALE_THRESHOLD_SECONDS == 30
HISTORY_KEEP_HOURS == 24
RECORDS_KEEP_DAYS == 7
\* the interval the background loop sleeps for in trading hours
FETCH_INTERVAL_TRADING == 5

\* amounts the clock advances by
TickSteps == {STALE_THRESHOLD_SECONDS + 1}

Procs == {"bg", "api"}
NoProc == "none"

SOURCE_TYPES == <<"eastmoney", "tencent", "netease", "sina">>
SourceIds == 1..NumSources

----------------------------------------------------------------------------
(* Quote fetchers.  A payload is what the upstream answered: ok = FALSE is  *)
(* a network error or a payload that does not parse, raw is the price field *)
(* as sent (eastmoney: 1/100 yuan; the others: a decimal, here 1/1000 yuan) *)

RawPrices == {0, 55046}
Payloads == {[ok |-> FALSE, raw |-> 0]} \cup {[ok |-> TRUE, raw |-> r] : r \in RawPrices}

\* round(x, 2) on an amount in 1/1000 yuan (ties to even; RawPrices has no tie)
Round2(m) ==
    LET q == m \div 10
        r == m % 10
    IN  IF r < 5 THEN q * 10
        ELSE IF r > 5 THEN (q + 1) * 10
        ELSE IF q % 2 = 0 THEN q * 10 ELSE (q + 1) * 10

Quote(price, ts, name) == [price |-> price, timestamp |-> ts, source |-> name]

fetch_from_eastmoney(payload, now, name) ==
    IF ~payload.ok THEN <<>>
    ELSE LET current_price == payload.raw * 10
         IN  IF current_price <= 0 THEN <<>>
             ELSE <<Quote(Round2(current_price), now, name)>>

fetch_from_sina(payload, now, name) ==
    IF ~payload.ok THEN <<>>
    ELSE LET current_price == payload.raw
         IN  IF current_price <= 0 THEN <<>>
             ELSE <<Quote(Round2(current_price), now, name)>>

fetch_from_tencent(payload, now, name) ==
    IF ~payload.ok THEN <<>>
    ELSE LET current_price == payload.raw
         IN  <<Quote(Round2(current_price), now, name)>>

fetch_from_netease(payload, now, name) ==
    IF ~payload.ok THEN <<>>
    ELSE LET current_price == payload.raw
         IN  IF current_price <= 0 THEN <<>>
             ELSE <<Quote(Round2(current_price), now, name)>>

\* SOURCE_HANDLERS[type](source)
SOURCE_HANDLERS(type, payload, now) ==
    CASE type = "eastmoney" -> fetch_from_eastmoney(payload, now, type)
      [] type = "sina"      -> fetch_from_sina(payload, now, type)
      [] type = "tencent"   -> fetch_from_tencent(payload, now, type)
      [] type = "netease"   -> fetch_from_netease(payload, now, type)

----------------------------------------------------------------------------
(* History buffer *)

\* variant: a plain list append, no maxlen
DequeAppend_Unbounded(h, x) == Append(h, x)

\* deque(maxlen=MAX_HISTORY_SIZE).append(x)
DequeAppend(h, x) ==
    IF Len(h) >= MAX_HISTORY_SIZE THEN Append(Tail(h), x) ELSE Append(h, x)

\* deque.extend(xs): append one by one
RECURSIVE DequeExtend(_, _)
DequeExtend(h, xs) ==
    IF xs = <<>> THEN h ELSE DequeExtend(DequeAppend(h, Head(xs)), Tail(xs))

\* load_data: price_history.clear(); price_history.extend(history)
LoadHistory(file) == DequeExtend(<<>>, file)

\* variant: every expired entry is filtered out, wherever it is
PopExpired_Filter(h, threshold) ==
    LET keep(e) == e.timestamp >= threshold
    IN  SelectSeq(h, keep)

\* while price_history and price_history[0]['timestamp'] < threshold: popleft()
RECURSIVE PopExpired(_, _)
PopExpired(h, threshold) ==
    IF h # <<>> /\ h[1].timestamp < threshold
    THEN PopExpired(Tail(h), threshold)
    ELSE h

HistoryThreshold(now) == now - HISTORY_KEEP_HOURS * 3600
RecordThreshold(now) == now - RECORDS_KEEP_DAYS * 86400

KeepRecord(r, threshold) == r.timestamp > threshold

\* cleanup_expired_data, on the history
CleanupHistory(h, now) == PopExpired(h, HistoryThreshold(now))

\* cleanup_expired_data, on the manual records
CleanupRecords(rs, now) ==
    LET keep(r) == KeepRecord(r, RecordThreshold(now))
    IN  SelectSeq(rs, keep)

Sorted(h) == \A i \in 1..Len(h) : \A j \in i..Len(h) : h[i].timestamp <= h[j].timestamp

----------------------------------------------------------------------------
(* Source selection with circuit breaker: fetch_gold_price *)

SourceSeq == [i \in SourceIds |-> i]

\* variant: the enabled sources in reverse priority order
EnabledSources_Reversed(srcs) ==
    LET on(i) == srcs[i].enabled
        e == SelectSeq(SourceSeq, on)
    IN  [k \in 1..Len(e) |-> e[Len(e) + 1 - k]]

\* enabled_sources = [s for s in DATA_SOURCES if s.get('enabled', False)]
EnabledSources(srcs) ==
    LET on(i) == srcs[i].enabled
    IN  SelectSeq(SourceSeq, on)

\* variant: the comparison the wrong way round
IsMuted_Inverted(src, now) == src.mute_until < now

\* source.get('mute_until', 0) > now_ts
IsMuted(src, now) == src.mute_until > now

\* the source the loop of thread p is at
Cur(p) == EnabledSources(sources)[idx[p]]

REASON_NONE_ENABLED == "no enabled source"
REASON_ALL_MUTED == "all sources muted"
REASON_ALL_FAILED == "all sources failed"
NoReason == "None"

\* variant: "all muted" as soon as one source was muted
ExitReason_AnyMuted(muted, enabled_sources) ==
    IF muted > 0 THEN REASON_ALL_MUTED ELSE REASON_ALL_FAILED

\* the return statement after the loop
ExitReason(muted, enabled_sources) ==
    IF muted = Len(enabled_sources) THEN REASON_ALL_MUTED ELSE REASON_ALL_FAILED

\* source['fail_count'] >= MAX_FAIL_COUNT
Tripped(fail_count) == fail_count >= MAX_FAIL_COUNT

ResetGhost(p) ==
    /\ third' = [third EXCEPT ![p] = FALSE]
    /\ seen_muted' = [seen_muted EXCEPT ![p] = {}]
    /\ invoked' = [invoked EXCEPT ![p] = {}]
    /\ failed' = [failed EXCEPT ![p] = {}]
    /\ wrote' = [wrote EXCEPT ![p] = {}]
    /\ UNCHANGED consec

\* lines 421-427: entry of fetch_gold_price by thread p
FetchBegin(p) ==
    /\ calls < MaxCalls
    /\ calls' = calls + 1
    /\ now_ts' = [now_ts EXCEPT ![p] = clock]
    /\ muted_count' = [muted_count EXCEPT ![p] = 0]
    /\ idx' = [idx EXCEPT ![p] = 1]
    /\ data' = [data EXCEPT ![p] = <<>>]
    /\ reg' = [reg EXCEPT ![p] = 0]
    /\ ResetGhost(p)
    /\ IF EnabledSources(sources) = <<>>
       THEN /\ result' = [result EXCEPT ![p] = [data |-> <<>>, reason |-> REASON_NONE_ENABLED]]
            /\ pc' = [pc EXCEPT ![p] = "returned"]
       ELSE /\ result' = [result EXCEPT ![p] = [data |-> <<>>, reason |-> NoReason]]
            /\ pc' = [pc EXCEPT ![p] = "loop"]

\* the for loop moves on from the current source; after the last one the
\* function returns without data (lines 453-456); muted is muted_count by then
NextSource(p, muted) ==
    IF idx[p] < Len(EnabledSources(sources))
    THEN /\ idx' = [idx EXCEPT ![p] = @ + 1]
         /\ pc' = [pc EXCEPT ![p] = "loop"]
         /\ UNCHANGED result
    ELSE /\ result' = [result EXCEPT ![p] =
                [data |-> <<>>, reason |-> ExitReason(muted, EnabledSources(sources))]]
         /\ pc' = [pc EXCEPT ![p] = "returned"]
         /\ UNCHANGED idx

\* lines 428-439: the source at hand is skipped when muted, else its handler
\* is invoked
LoopStep(p) ==
    /\ UNCHANGED aux_vars
    /\ pc[p] = "loop"
    /\ seen_muted' = [seen_muted EXCEPT ![p] =
           IF sources[Cur(p)].mute_until > now_ts[p] THEN @ \cup {Cur(p)} ELSE @]
    /\ IF IsMuted(sources[Cur(p)], now_ts[p])
       THEN /\ muted_count' = [muted_count EXCEPT ![p] = @ + 1]
            /\ NextSource(p, muted_count[p] + 1)
            /\ UNCHANGED invoked
       ELSE /\ pc' = [pc EXCEPT ![p] = "fetching"]
            /\ invoked' = [invoked EXCEPT ![p] = @ \cup {Cur(p)}]
            /\ UNCHANGED <<muted_count, idx, result>>
    /\ UNCHANGED <<clock, ticks, bg_wake, calls, sources, lock_owner, now_ts, reg, data,
                   price_history, manual_records, consec, third, failed, wrote, last>>

\* lines 439-442 and 445-447 (read): the handler returns.  With a quote the
\* fail_count is reset; without, the fail_count is read for the increment.
HandlerReturn(p) ==
    /\ UNCHANGED aux_vars
    /\ pc[p] = "fetching"
    /\ \E payload \in Payloads :
         LET d == SOURCE_HANDLERS(SOURCE_TYPES[Cur(p)], payload, clock)
         IN  /\ data' = [data EXCEPT ![p] = d]
             /\ IF d # <<>>
                THEN /\ sources' = [sources EXCEPT ![Cur(p)].fail_count = 0]
                     /\ pc' = [pc EXCEPT ![p] = "ok_mute"]
                     /\ consec' = [consec EXCEPT ![Cur(p)] = 0]
                     /\ wrote' = [wrote EXCEPT ![p] = @ \cup {Cur(p)}]
                     /\ UNCHANGED <<reg, third, failed>>
                ELSE /\ reg' = [reg EXCEPT ![p] = sources[Cur(p)].fail_count]
                     /\ pc' = [pc EXCEPT ![p] = "inc_write"]
                     /\ consec' = [consec EXCEPT ![Cur(p)] =
                            IF @ + 1 = MAX_FAIL_COUNT THEN 0 ELSE @ + 1]
                     /\ third' = [third EXCEPT ![p] = (consec[Cur(p)] + 1 = MAX_FAIL_COUNT)]
                     /\ failed' = [failed EXCEPT ![p] = @ \cup {Cur(p)}]
                     /\ UNCHANGED <<sources, wrote>>
    /\ UNCHANGED <<clock, ticks, bg_wake, calls, lock_owner, idx, now_ts, muted_count, result,
                   price_history, manual_records, seen_muted, invoked, last>>

\* lines 443-444: source['mute_until'] = 0; return data, None
OkResetMute(p) ==
    /\ UNCHANGED aux_vars
    /\ pc[p] = "ok_mute"
    /\ sources' = [sources EXCEPT ![Cur(p)].mute_until = 0]
    /\ result' = [result EXCEPT ![p] = [data |-> data[p], reason |-> NoReason]]
    /\ pc' = [pc EXCEPT ![p] = "returned"]
    /\ UNCHANGED <<clock, ticks, bg_wake, calls, lock_owner, idx, now_ts, muted_count, reg, data,
                   price_history, manual_records, last>>
    /\ UNCHANGED ghost_vars

\* line 447 (store): source['fail_count'] = <value read> + 1
IncWrite(p) ==
    /\ UNCHANGED aux_vars
    /\ pc[p] = "inc_write"
    /\ sources' = [sources EXCEPT ![Cur(p)].fail_count = reg[p] + 1]
    /\ reg' = [reg EXCEPT ![p] = 0]
    /\ wrote' = [wrote EXCEPT ![p] = @ \cup {Cur(p)}]
    /\ pc' = [pc EXCEPT ![p] = "trip_check"]
    /\ UNCHANGED <<clock, ticks, bg_wake, calls, lock_owner, idx, now_ts, muted_count, data,
                   result, price_history, manual_records, consec, third, seen_muted,
                   invoked, failed, last>>

\* line 448: if source['fail_count'] >= MAX_FAIL_COUNT
TripCheck(p) ==
    /\ UNCHANGED aux_vars
    /\ pc[p] = "trip_check"
    /\ IF Tripped(sources[Cur(p)].fail_count)
       THEN /\ pc' = [pc EXCEPT ![p] = "trip_mute"]
            /\ UNCHANGED <<idx, result, third>>
       ELSE /\ NextSource(p, muted_count[p])
            /\ third' = [third EXCEPT ![p] = FALSE]
    /\ UNCHANGED <<clock, ticks, bg_wake, calls, sources, lock_owner, now_ts, muted_count, reg,
                   data, price_history, manual_records, consec, seen_muted,
                   invoked, failed, wrote, last>>

\* line 450: source['mute_until'] = now_ts + MUTE_DURATION
TripMute(p) ==
    /\ UNCHANGED aux_vars
    /\ pc[p] = "trip_mute"
    /\ sources' = [sources EXCEPT ![Cur(p)].mute_until = now_ts[p] + MUTE_DURATION]
    /\ pc' = [pc EXCEPT ![p] = "trip_reset"]
    /\ UNCHANGED <<clock, ticks, bg_wake, calls, lock_owner, idx, now_ts, muted_count, reg, data,
                   result, price_history, manual_records, last>>
    /\ UNCHANGED ghost_vars

\* line 451: source['fail_count'] = 0, and on to the next source
TripReset(p) ==
    /\ UNCHANGED aux_vars
    /\ pc[p] = "trip_reset"
    /\ sources' = [sources EXCEPT ![Cur(p)].fail_count = 0]
    /\ NextSource(p, muted_count[p])
    /\ third' = [third EXCEPT ![p] = FALSE]
    /\ UNCHANGED <<clock, ticks, bg_wake, calls, lock_owner, now_ts, muted_count, reg, data,
                   price_history, manual_records, consec, seen_muted, invoked,
                   failed, wrote, last>>

\* one step of fetch_gold_price by thread p
FetchStep(p) ==
    \/ LoopStep(p)
    \/ HandlerReturn(p)
    \/ OkResetMute(p)
    \/ IncWrite(p)
    \/ TripCheck(p)
    \/ TripMute(p)
    \/ TripReset(p)

----------------------------------------------------------------------------
(* The callers: background_fetch_loop and the GET /api/price handler *)

\* the frame of fetch_gold_price is dropped once its caller has used the result
DropFrame(p) ==
    /\ idx' = [idx EXCEPT ![p] = 1]
    /\ now_ts' = [now_ts EXCEPT ![p] = 0]
    /\ muted_count' = [muted_count EXCEPT ![p] = 0]
    /\ reg' = [reg EXCEPT ![p] = 0]
    /\ data' = [data EXCEPT ![p] = <<>>]
    /\ result' = [result EXCEPT ![p] = [data |-> <<>>, reason |-> NoReason]]
    /\ ResetGhost(p)

\* save_data: under the lock, cleanup_expired_data, then the atomic file write
SaveData ==
    /\ price_history' = CleanupHistory(price_history, clock)
    /\ manual_records' = CleanupRecords(manual_records, clock)

\* background_fetch_loop (app.py 528-530): the sleep is over and the loop calls
\* fetch_gold_price, no lock held
BgFetch ==
    /\ UNCHANGED aux_vars
    /\ pc["bg"] = "idle"
    /\ clock >= bg_wake
    /\ FetchBegin("bg")
    /\ UNCHANGED <<clock, ticks, bg_wake, sources, lock_owner, price_history,
                   manual_records, last>>

\* background_fetch_loop (app.py 531-534): with lock: price_history.append(data);
\* without data the loop goes to sleep (line 540)
BgAppend ==
    /\ UNCHANGED aux_vars
    /\ pc["bg"] = "returned"
    /\ IF result["bg"].data # <<>>
       THEN /\ lock_owner = NoProc
            /\ price_history' = DequeAppend(price_history, result["bg"].data[1])
            /\ pc' = [pc EXCEPT !["bg"] = "bg_save"]
            /\ UNCHANGED bg_wake
       ELSE /\ pc' = [pc EXCEPT !["bg"] = "idle"]
            /\ bg_wake' = clock + FETCH_INTERVAL_TRADING
            /\ UNCHANGED price_history
    /\ DropFrame("bg")
    /\ UNCHANGED <<clock, ticks, calls, sources, lock_owner, manual_records, last>>

\* background_fetch_loop (app.py 536-540): save_data(), then time.sleep(5)
BgSave ==
    /\ UNCHANGED aux_vars
    /\ pc["bg"] = "bg_save"
    /\ lock_owner = NoProc
    /\ SaveData
    /\ pc' = [pc EXCEPT !["bg"] = "idle"]
    /\ bg_wake' = clock + FETCH_INTERVAL_TRADING
    /\ UNCHANGED <<clock, ticks, calls, sources, lock_owner, last>>
    /\ UNCHANGED fetch_vars
    /\ UNCHANGED ghost_vars

\* time.time() - latest["timestamp"] > STALE_THRESHOLD_SECONDS
IsStale(latest, now) == now - latest.timestamp > STALE_THRESHOLD_SECONDS

\* get_price with a fresh latest quote: served from the buffer under the lock
ApiServeCached ==
    /\ pc["api"] = "idle"
    /\ lock_owner = NoProc
    /\ price_history # <<>>
    /\ ~IsStale(price_history[Len(price_history)], clock)
    /\ UNCHANGED vars

\* get_price with an empty buffer or a stale latest quote: takes the lock and
\* calls fetch_gold_price while holding it
ApiFetch ==
    /\ UNCHANGED aux_vars
    /\ pc["api"] = "idle"
    /\ lock_owner = NoProc
    /\ IF price_history = <<>> THEN TRUE
       ELSE IsStale(price_history[Len(price_history)], clock)
    /\ lock_owner' = "api"
    /\ FetchBegin("api")
    /\ UNCHANGED <<clock, ticks, bg_wake, sources, price_history, manual_records, last>>

\* get_price after fetch_gold_price returned: append and save_data when there
\* is data, then the response; the lock is released on return
ApiFinish ==
    /\ UNCHANGED aux_vars
    /\ pc["api"] = "returned"
    /\ lock_owner = "api"
    /\ IF result["api"].data # <<>>
       THEN LET h == DequeAppend(price_history, result["api"].data[1])
            IN  /\ price_history' = CleanupHistory(h, clock)
                /\ manual_records' = CleanupRecords(manual_records, clock)
       ELSE UNCHANGED <<price_history, manual_records>>
    /\ lock_owner' = NoProc
    /\ pc' = [pc EXCEPT !["api"] = "idle"]
    /\ DropFrame("api")
    /\ UNCHANGED <<clock, ticks, bg_wake, calls, sources, last>>

\* the wall clock advances
Tick ==
    /\ UNCHANGED aux_vars
    /\ ticks < MaxTicks
    /\ \E d \in TickSteps : clock' = clock + d
    /\ ticks' = ticks + 1
    /\ UNCHANGED <<calls, sources, lock_owner, pc, bg_wake, price_history, manual_records, last>>
    /\ UNCHANGED fetch_vars
    /\ UNCHANGED ghost_vars

----------------------------------------------------------------------------
(* Initial state: module load, load_data() of a document written earlier *)

\* the `enabled` flags of the configuration: the first k sources switched off
EnabledConfigs == {[i \in SourceIds |-> i > k] : k \in 0..NumSources}

GoodPrice == Round2(55046 * 10)

\* data.json at start: absent (first run), or one quote saved a day ago
MainFiles ==
    { <<>>,
      <<Quote(GoodPrice, 0 - HISTORY_KEEP_HOURS * 3600, "eastmoney")>> }

NoOp == [op |-> "none", before |-> <<>>, arg |-> <<>>, now |-> 0]

\* no holidays known, no status asked for yet
NoCalendars == [gold |-> {}, fund |-> {}]
NoStatuses == [gold |-> <<>>, fund |-> <<>>]

\* the fund state of a process that loaded no document and serves no request
NoHoldingsCache == [timestamp |-> 0, response |-> <<>>]
NoDocument == [fund_watchlist |-> <<>>, fund_holdings |-> <<>>, fund_portfolios |-> <<>>]
Clients == {"c1", "c2"}
Idle == [op |-> "idle", pc |-> "idle"]

InitFundLocals ==
    /\ fund_refreshing = FALSE
    /\ holdings_refreshing = FALSE
    /\ frames = [c \in Clients |-> Idle]
    /\ workers = <<>>
    /\ served = 0
    /\ fetched = {}

InitNoFunds ==
    /\ InitFundLocals
    /\ fund_watchlist = <<>>
    /\ fund_cache = [code \in {"000001", "000002", "000003"} |-> <<>>]
    /\ fund_holdings = <<>>
    /\ holdings_cache = NoHoldingsCache
    /\ fund_portfolios = [code \in {"000001", "000002", "000003"} |-> <<>>]
    /\ saved = NoDocument

\* alert_settings as the module defines it, lines 108-112
DefaultAlerts == [high |-> 0, low |-> 0, enabled |-> FALSE]

InitGoldLocals ==
    /\ alert_settings = DefaultAlerts
    /\ memory_cache = <<>>
    /\ ticks = 0
    /\ calls = 0
    /\ lock_owner = NoProc
    /\ bg_wake = 0
    /\ idx = [p \in Procs |-> 1]
    /\ now_ts = [p \in Procs |-> 0]
    /\ muted_count = [p \in Procs |-> 0]
    /\ reg = [p \in Procs |-> 0]
    /\ data = [p \in Procs |-> <<>>]
    /\ result = [p \in Procs |-> [data |-> <<>>, reason |-> NoReason]]
    /\ consec = [i \in SourceIds |-> 0]
    /\ third = [p \in Procs |-> FALSE]
    /\ seen_muted = [p \in Procs |-> {}]
    /\ invoked = [p \in Procs |-> {}]
    /\ failed = [p \in Procs |-> {}]
    /\ wrote = [p \in Procs |-> {}]
    /\ last = NoOp
    /\ summary = <<>>
    /\ status = NoStatuses
    /\ last_trading_status = <<>>
    /\ interval = 0
    /\ events = <<>>
    /\ observed = <<>>

InitLocals ==
    /\ InitGoldLocals
    /\ InitNoFunds

\* the gold side at rest: no holidays, no quotes, both threads idle
InitGoldIdle ==
    /\ pc = [p \in Procs |-> "idle"]
    /\ calendar = NoCalendars
    /\ sources = [i \in SourceIds |-> [enabled |-> TRUE, fail_count |-> 0, mute_until |-> 0]]
    /\ price_history = <<>>
    /\ manual_records = <<>>

\* both threads before their first statement
InitThreads ==
    /\ InitLocals
    /\ pc = [p \in Procs |-> "idle"]

Init ==
    /\ InitThreads
    /\ clock = 0
    /\ calendar = NoCalendars
    /\ \E en \in EnabledConfigs :
         sources = [i \in SourceIds |->
                      [enabled |-> en[i], fail_count |-> 0, mute_until |-> 0]]
    /\ \E file \in MainFiles : price_history = LoadHistory(file)
    /\ manual_records = <<>>

Next ==
    \/ BgFetch
    \/ BgAppend
    \/ BgSave
    \/ ApiServeCached
    \/ ApiFetch
    \/ ApiFinish
    \/ Tick
    \/ \E p \in Procs : FetchStep(p)

Spec == Init /\ [][Next]_vars

TypeOK ==
    /\ Len(price_history) <= MAX_HISTORY_SIZE
    /\ \A i \in SourceIds : sources[i].fail_count \in 0..MaxCalls

----------------------------------------------------------------------------
(* The history buffer on its own: SpecHistory *)

\* capture times around the 24h cutoff of a save at clock 0
HTimes == {HistoryThreshold(0) - 1, HistoryThreshold(0), HistoryThreshold(0) + 1}
HQuotes == {Quote(GoodPrice, t, "eastmoney") : t \in HTimes}

RECURSIVE SeqsUpTo(_, _)
SeqsUpTo(S, n) ==
    IF n = 0 THEN {<<>>}
    ELSE LET shorter == SeqsUpTo(S, n - 1)
         IN  shorter \cup {Append(q, x) : q \in shorter, x \in S}

\* documents on disk: any order, up to one entry more than the capacity
HistoryFiles == SeqsUpTo(HQuotes, MAX_HISTORY_SIZE + 1)

Record(ts) == [timestamp |-> ts]
RecordFiles ==
    { <<>>,
      <<Record(RecordThreshold(0)), Record(RecordThreshold(0) + 1)>>,
      <<Record(RecordThreshold(0) + 2), Record(RecordThreshold(0) + 1)>> }

\* load_data: both lists are replaced by the document's
HLoad ==
    \E file \in HistoryFiles, recs \in RecordFiles :
        /\ UNCHANGED aux_vars
        /\ price_history' = LoadHistory(file)
        /\ manual_records' = recs
        /\ last' = [op |-> "load", before |-> <<>>, arg |-> file, now |-> clock]
        /\ UNCHANGED <<clock, ticks, bg_wake, calls, sources, lock_owner, pc>>
        /\ UNCHANGED fetch_vars
        /\ UNCHANGED ghost_vars

\* with lock: price_history.append(data)
HAppend ==
    \E q \in HQuotes :
        /\ UNCHANGED aux_vars
        /\ price_history' = DequeAppend(price_history, q)
        /\ last' = [op |-> "append", before |-> price_history, arg |-> <<q>>, now |-> clock]
        /\ UNCHANGED <<clock, ticks, bg_wake, calls, sources, lock_owner, pc, manual_records>>
        /\ UNCHANGED fetch_vars
        /\ UNCHANGED ghost_vars

\* save_data: cleanup_expired_data at the current time
HSave ==
    /\ UNCHANGED aux_vars
    /\ SaveData
    /\ last' = [op |-> "cleanup", before |-> price_history, arg |-> <<>>, now |-> clock]
    /\ UNCHANGED <<clock, ticks, bg_wake, calls, sources, lock_owner, pc>>
    /\ UNCHANGED fetch_vars
    /\ UNCHANGED ghost_vars

\* the wall clock advances by a second
HTick ==
    /\ UNCHANGED aux_vars
    /\ ticks < MaxTicks
    /\ clock' = clock + 1
    /\ ticks' = ticks + 1
    /\ UNCHANGED <<calls, sources, lock_owner, pc, bg_wake, price_history, manual_records, last>>
    /\ UNCHANGED fetch_vars
    /\ UNCHANGED ghost_vars

InitHistory ==
    /\ InitThreads
    /\ clock = 0
    /\ calendar = NoCalendars
    /\ sources = [i \in SourceIds |-> [enabled |-> TRUE, fail_count |-> 0, mute_until |-> 0]]
    /\ \E file \in HistoryFiles : price_history = LoadHistory(file)
    /\ manual_records \in RecordFiles

NextHistory ==
    \/ HLoad
    \/ HAppend
    \/ HSave
    \/ HTick

SpecHistory == InitHistory /\ [][NextHistory]_vars

----------------------------------------------------------------------------
(* The 24 hour summary: SpecSummary *)

\* variant: the first price instead of the highest
MaxPrice_First(prices) == prices[1]

\* max(prices)
MaxPrice(prices) ==
    CHOOSE x \in {prices[i] : i \in 1..Len(prices)} :
        \A i \in 1..Len(prices) : x >= prices[i]

\* min(prices)
MinPrice(prices) ==
    CHOOSE x \in {prices[i] : i \in 1..Len(prices)} :
        \A i \in 1..Len(prices) : x <= prices[i]

\* sum(prices)
RECURSIVE SumPrices(_)
SumPrices(prices) ==
    IF prices = <<>> THEN 0 ELSE Head(prices) + SumPrices(Tail(prices))

\* round(num / den, 2) on an amount in 1/1000 yuan.  The quotient is a float:
\* when it lies half way between two cents its binary value is just above or
\* just below, so either neighbour can come out (half_up says which)
RoundDiv2(num, den, half_up) ==
    LET q == num \div (10 * den)
        r == num - q * 10 * den
    IN  IF 2 * r < 10 * den THEN q * 10
        ELSE IF 2 * r > 10 * den THEN (q + 1) * 10
        ELSE IF half_up THEN (q + 1) * 10 ELSE q * 10

\* get_24h_summary, under the lock
get_24h_summary(history, half_up) ==
    IF history = <<>> THEN <<>>
    ELSE LET prices == [i \in 1..Len(history) |-> history[i].price]
             high == MaxPrice(prices)
             low == MinPrice(prices)
             volatility == high - low
         IN  <<[high_24h |-> Round2(high),
                low_24h |-> Round2(low),
                avg_24h |-> RoundDiv2(SumPrices(prices), Len(prices), half_up),
                volatility |-> Round2(volatility),
                count |-> Len(prices)]>>

\* prices of the quotes in the buffer, in 1/1000 yuan
SummaryPrices == {10, 20, GoodPrice, GoodPrice + 10, GoodPrice + 30}
SummaryQuotes == {Quote(p, 0, "eastmoney") : p \in SummaryPrices}
SummaryFiles == SeqsUpTo(SummaryQuotes, MAX_HISTORY_SIZE)

\* get_price asks for the summary (line 1165)
SSummary ==
    /\ lock_owner = NoProc
    /\ \E half_up \in BOOLEAN : summary' = get_24h_summary(price_history, half_up)
    /\ last' = [op |-> "summary", before |-> price_history, arg |-> <<>>, now |-> clock]
    /\ UNCHANGED <<clock, ticks, bg_wake, calls, sources, lock_owner, pc,
                   price_history, manual_records>>
    /\ UNCHANGED <<fund_vars, fetch_vars, ghost_vars, hours_vars, sched_vars>>

\* with lock: price_history.append(data)
SAppend ==
    \E q \in SummaryQuotes :
        /\ price_history' = DequeAppend(price_history, q)
        /\ last' = [op |-> "append", before |-> price_history, arg |-> <<q>>, now |-> clock]
        /\ UNCHANGED <<clock, ticks, bg_wake, calls, sources, lock_owner, pc,
                       manual_records, summary>>
        /\ UNCHANGED <<fund_vars, fetch_vars, ghost_vars, hours_vars, sched_vars>>

InitSummary ==
    /\ InitThreads
    /\ clock = 0
    /\ calendar = NoCalendars
    /\ sources = [i \in SourceIds |-> [enabled |-> TRUE, fail_count |-> 0, mute_until |-> 0]]
    /\ \E file \in SummaryFiles : price_history = LoadHistory(file)
    /\ manual_records = <<>>

NextSummary ==
    \/ SSummary
    \/ SAppend

SpecSummary == InitSummary /\ [][NextSummary]_vars

----------------------------------------------------------------------------
(* Trading hours: get_trading_status, get_fund_trading_status *)
(* An instant is a number of seconds since 00:00 of day 0, a Monday; a date *)
(* is a day number.  A calendar is a set of named holidays, each with its   *)
(* dates and, when the exchange announced it, the first trading day after.  *)

DaySeconds == 24 * 3600

\* datetime.strptime("HH:MM", "%H:%M").time()
HM(h, m) == h * 3600 + m * 60

\* dt.date(), dt.time(), datetime.combine(date, time)
DateOf(t) == t \div DaySeconds
TimeOf(t) == t % DaySeconds
Combine(date, time) == date * DaySeconds + time

\* dt.weekday(): 0 is Monday, 6 is Sunday
get_weekday(t) == DateOf(t) % 7

\* date_str in holidays, for the calendar of the market
is_holiday(t, market_type) == \E h \in calendar[market_type] : DateOf(t) \in h.days

\* is_trading_day: Monday to Friday and no holiday
is_trading_day(t, market_type) ==
    IF get_weekday(t) >= 5 THEN FALSE
    ELSE IF is_holiday(t, market_type) THEN FALSE
    ELSE TRUE

\* for _ in range(30): the first trading day among n days from date on
RECURSIVE SearchTradingDay(_, _, _)
SearchTradingDay(date, market_type, n) ==
    IF n = 0 THEN <<>>
    ELSE IF is_trading_day(Combine(date, 0), market_type) THEN <<date>>
    ELSE SearchTradingDay(date + 1, market_type, n - 1)

MAX_SEARCH_DAYS == 30

\* variant: the day after, whatever day it is
find_next_trading_day_Tomorrow(t, market_type) == DateOf(t) + 1

\* _find_next_trading_day: the first trading day the calendar names for the
\* holiday of the start date, when it is later than the start date; else the
\* first trading day among the next 30 days; else the start date
find_next_trading_day(t, market_type) ==
    LET named == {h \in calendar[market_type] :
                      /\ DateOf(t) \in h.days
                      /\ h.first # <<>>
                      /\ h.first[1] > DateOf(t)}
        found == SearchTradingDay(DateOf(t) + 1, market_type, MAX_SEARCH_DAYS)
    IN  IF named # {} THEN (CHOOSE h \in named : TRUE).first[1]
        ELSE IF found # <<>> THEN found[1]
        ELSE DateOf(t)

\* the result dict of a status function for the instant t
\* variant: is_trading_time keeps the False of the default result
Status_FlagUnset(trading, phase, event, event_time, t, market_type) ==
    [is_trading_time |-> FALSE,
     trading_phase |-> phase,
     next_event |-> event,
     next_event_time |-> event_time,
     time_until_next |-> event_time - t,
     is_holiday |-> is_holiday(t, market_type),
     weekday |-> get_weekday(t)]

Status(trading, phase, event, event_time, t, market_type) ==
    [is_trading_time |-> trading,
     trading_phase |-> phase,
     next_event |-> event,
     next_event_time |-> event_time,
     time_until_next |-> event_time - t,
     is_holiday |-> is_holiday(t, market_type),
     weekday |-> get_weekday(t)]

\* variant: a night session on Friday as well
HasNightSession_Friday(weekday) == weekday < 5

\* weekday < 4: Monday to Thursday have a night session
HasNightSession(weekday) == weekday < 4

\* variant: the day session starts with the fund market, at 09:30
InDaySession_Late(current_time) == current_time >= HM(9, 30) /\ current_time < HM(15, 30)

\* current_time >= 09:00 and current_time < 15:30
InDaySession(current_time) == current_time >= HM(9, 0) /\ current_time < HM(15, 30)

\* _calculate_next_event: gold, outside the trading phases of a trading day
calculate_next_event(t) ==
    LET current_time == TimeOf(t)
        weekday == get_weekday(t)
        next_open == Combine(find_next_trading_day(t, "gold"), HM(9, 0))
    IN  IF current_time < HM(8, 50)
        THEN Status(FALSE, "closed", "day_auction", Combine(DateOf(t), HM(8, 50)), t, "gold")
        ELSE IF current_time >= HM(15, 30) /\ current_time < HM(19, 50)
        THEN IF HasNightSession(weekday)
             THEN Status(FALSE, "closed", "night_auction", Combine(DateOf(t), HM(19, 50)), t, "gold")
             ELSE Status(FALSE, "closed", "day_open", next_open, t, "gold")
        ELSE IF current_time >= HM(2, 30) /\ current_time < HM(8, 50)
        THEN Status(FALSE, "closed", "day_open", Combine(DateOf(t), HM(9, 0)), t, "gold")
        ELSE Status(FALSE, "closed", "day_open", next_open, t, "gold")

\* get_trading_status: gold
get_trading_status(t) ==
    LET current_time == TimeOf(t)
        weekday == get_weekday(t)
        yesterday == Combine(DateOf(t) - 1, 0)
    IN  IF ~is_trading_day(t, "gold")
        THEN Status(FALSE, "closed", "day_open",
                    Combine(find_next_trading_day(t, "gold"), HM(9, 0)), t, "gold")
        ELSE IF current_time >= HM(8, 50) /\ current_time < HM(8, 59)
        THEN Status(TRUE, "day_auction", "day_open", Combine(DateOf(t), HM(9, 0)), t, "gold")
        ELSE IF InDaySession(current_time)
        THEN Status(TRUE, "day_session", "day_close", Combine(DateOf(t), HM(15, 30)), t, "gold")
        ELSE IF /\ HasNightSession(weekday)
                /\ current_time >= HM(19, 50)
                /\ current_time < HM(19, 59)
        THEN Status(TRUE, "night_auction", "night_open", Combine(DateOf(t), HM(20, 0)), t, "gold")
        ELSE IF HasNightSession(weekday) /\ current_time >= HM(20, 0)
        THEN Status(TRUE, "night_session", "night_close",
                    Combine(DateOf(t) + 1, HM(2, 30)), t, "gold")
        ELSE IF /\ current_time < HM(2, 30)
                /\ HasNightSession(get_weekday(yesterday))
                /\ ~is_holiday(yesterday, "gold")
        THEN Status(TRUE, "night_session", "night_close", Combine(DateOf(t), HM(2, 30)), t, "gold")
        ELSE calculate_next_event(t)

\* variant: the afternoon session runs to 15:30
FundCoreHours_LateClose(current_time) ==
    \/ (current_time >= HM(9, 30) /\ current_time < HM(11, 30))
    \/ (current_time >= HM(13, 0) /\ current_time < HM(15, 30))

\* (current_time >= t930 and current_time < t1130) or
\* (current_time >= t1300 and current_time < t1500)
FundCoreHours(current_time) ==
    \/ (current_time >= HM(9, 30) /\ current_time < HM(11, 30))
    \/ (current_time >= HM(13, 0) /\ current_time < HM(15, 0))

\* get_fund_trading_status
get_fund_trading_status(t) ==
    LET current_time == TimeOf(t)
        next_open == Combine(find_next_trading_day(t, "fund"), HM(9, 30))
    IN  IF ~is_trading_day(t, "fund")
        THEN Status(FALSE, "closed", "market_open", next_open, t, "fund")
        ELSE IF FundCoreHours(current_time)
        THEN IF current_time < HM(11, 30)
             THEN Status(TRUE, "trading", "lunch_break", Combine(DateOf(t), HM(11, 30)), t, "fund")
             ELSE Status(TRUE, "trading", "market_close", Combine(DateOf(t), HM(15, 0)), t, "fund")
        ELSE IF current_time < HM(9, 30)
        THEN Status(FALSE, "closed", "market_open", Combine(DateOf(t), HM(9, 30)), t, "fund")
        ELSE IF current_time < HM(13, 0)
        THEN Status(FALSE, "closed", "market_resume", Combine(DateOf(t), HM(13, 0)), t, "fund")
        ELSE Status(FALSE, "closed", "market_open", next_open, t, "fund")

----------------------------------------------------------------------------
(* The status functions on their own: SpecStatus *)

\* the last day an instant is drawn from (day 0 is a Monday)
MaxDay == 8

\* times of day: the phase boundaries, the second before each, and some
\* times inside the phases
SampleTimes ==
    LET edges == {HM(2, 30), HM(8, 50), HM(8, 59), HM(9, 0), HM(9, 30), HM(11, 30),
                  HM(13, 0), HM(15, 0), HM(15, 30), HM(19, 50), HM(19, 59), HM(20, 0)}
    IN  edges \cup {e - 1 : e \in edges}
              \cup {0, HM(1, 0), HM(8, 59) + 30, HM(9, 15), HM(12, 0), HM(19, 59) + 30,
                    HM(21, 0), DaySeconds - 1}

Instants == {Combine(d, x) : d \in 0..MaxDay, x \in SampleTimes}

Holiday(days, first) == [days |-> days, first |-> first]

\* holiday calendars of one market: none; a Friday; a Tuesday; Thursday to
\* Monday; a Monday for which no first trading day is announced
HolidayCalendars ==
    { {},
      {Holiday({4}, <<7>>)},
      {Holiday({1}, <<2>>)},
      {Holiday({3, 4, 5, 6, 7}, <<8>>)},
      {Holiday({7}, <<>>)} }

Calendars == {[gold |-> g, fund |-> f] : g \in HolidayCalendars, f \in HolidayCalendars}

\* GET /api/trading-status asks for the gold status
AskGold ==
    /\ status' = [status EXCEPT !.gold = <<get_trading_status(clock)>>]
    /\ UNCHANGED <<clock, ticks, bg_wake, calls, sources, lock_owner, pc,
                   price_history, manual_records, last, summary, calendar>>
    /\ UNCHANGED <<fund_vars, fetch_vars, ghost_vars, sched_vars>>

\* GET /api/trading-status asks for the fund status
AskFund ==
    /\ status' = [status EXCEPT !.fund = <<get_fund_trading_status(clock)>>]
    /\ UNCHANGED <<clock, ticks, bg_wake, calls, sources, lock_owner, pc,
                   price_history, manual_records, last, summary, calendar>>
    /\ UNCHANGED <<fund_vars, fetch_vars, ghost_vars, sched_vars>>

InitStatus ==
    /\ InitThreads
    /\ clock \in Instants
    /\ calendar \in Calendars
    /\ sources = [i \in SourceIds |-> [enabled |-> TRUE, fail_count |-> 0, mute_until |-> 0]]
    /\ price_history = <<>>
    /\ manual_records = <<>>

NextStatus ==
    \/ AskGold
    \/ AskFund

SpecStatus == InitStatus /\ [][NextStatus]_vars

----------------------------------------------------------------------------
(* The scheduler: background_fetch_loop of services/background.py with      *)
(* get_fetch_interval and check_trading_events: SpecSched                   *)

FUND_INTERVAL_TRADING == 15
FETCH_INTERVAL_NON_TRADING == 300
ERROR_BACKOFF == 30

\* iterations of the loop in one behaviour
MaxPolls == 3
\* seconds that pass between the two status reads of one iteration
MaxDelays == 1

\* variant: the fixed five seconds of the earlier loop
get_fetch_interval_Fixed(asset_type, t) == FETCH_INTERVAL_TRADING

\* get_fetch_interval
get_fetch_interval(asset_type, t) ==
    IF asset_type = "fund"
    THEN IF get_fund_trading_status(t).is_trading_time
         THEN FUND_INTERVAL_TRADING
         ELSE FETCH_INTERVAL_NON_TRADING
    ELSE IF get_trading_status(t).is_trading_time
         THEN FETCH_INTERVAL_TRADING
         ELSE FETCH_INTERVAL_NON_TRADING

\* event_map: <<last phase, current phase, event>>
event_map(asset_type) ==
    IF asset_type = "gold"
    THEN {<<"day_auction", "day_session", "day_open">>,
          <<"day_session", "closed", "day_close">>,
          <<"night_auction", "night_session", "night_open">>,
          <<"night_session", "closed", "night_close">>}
    ELSE {<<"closed", "trading", "market_open">>,
          <<"trading", "closed", "market_close">>}

\* the events mapped to the phase pair
MappedEvents(asset_type, last_phase, current_phase) ==
    {e[3] : e \in {m \in event_map(asset_type) : m[1] = last_phase /\ m[2] = current_phase}}

\* check_trading_events at the instant t: <<>> is None
check_trading_events(asset_type, last_status, t) ==
    LET current_status == IF asset_type = "fund"
                          THEN get_fund_trading_status(t)
                          ELSE get_trading_status(t)
    IN  IF last_status = <<>> THEN <<>>
        ELSE LET hits == MappedEvents(asset_type, last_status[1].trading_phase,
                                      current_status.trading_phase)
             IN  IF hits # {}
                 THEN <<[event |-> CHOOSE e \in hits : TRUE, timestamp |-> t]>>
                 ELSE <<>>

\* what the loop read from the clock: which statement, when, in which
\* iteration, and what it got
Read(kind, t, poll, value) ==
    [kind |-> kind, at |-> t, poll |-> poll,
     phase |-> get_trading_status(t).trading_phase,
     trading |-> get_trading_status(t).is_trading_time,
     value |-> value]

\* variant: the loop ends after an exception
AfterBackoff_Break == "stopped"

\* after the handler's sleep the while loop goes on
AfterBackoff == "sleeping"

\* line 24: interval = get_fetch_interval("gold")
SchedInterval ==
    /\ pc["bg"] = "top"
    /\ calls < MaxPolls
    /\ calls' = calls + 1
    /\ ticks' = 0
    /\ interval' = get_fetch_interval("gold", clock)
    /\ observed' = Append(observed,
                          Read("interval", clock, calls + 1, get_fetch_interval("gold", clock)))
    /\ pc' = [pc EXCEPT !["bg"] = "events"]
    /\ UNCHANGED <<clock, bg_wake, sources, lock_owner, price_history, manual_records,
                   last, summary, last_trading_status, events>>
    /\ UNCHANGED <<fund_vars, fetch_vars, ghost_vars, hours_vars>>

\* lines 27-30: event = check_trading_events("gold", last_trading_status),
\* reported when there is one
SchedEvents ==
    /\ pc["bg"] = "events"
    /\ LET event == check_trading_events("gold", last_trading_status, clock)
       IN  events' = IF event # <<>> THEN Append(events, event[1]) ELSE events
    /\ observed' = Append(observed, Read("events", clock, calls, 0))
    /\ pc' = [pc EXCEPT !["bg"] = "status"]
    /\ UNCHANGED <<clock, ticks, bg_wake, calls, sources, lock_owner, price_history,
                   manual_records, last, summary, last_trading_status, interval>>
    /\ UNCHANGED <<fund_vars, fetch_vars, ghost_vars, hours_vars>>

\* lines 33-38: last_trading_status = get_trading_status()
SchedStatus ==
    /\ pc["bg"] = "status"
    /\ last_trading_status' = <<get_trading_status(clock)>>
    /\ observed' = Append(observed, Read("status", clock, calls, 0))
    /\ pc' = [pc EXCEPT !["bg"] = "fetch"]
    /\ UNCHANGED <<clock, ticks, bg_wake, calls, sources, lock_owner, price_history,
                   manual_records, last, summary, interval, events>>
    /\ UNCHANGED <<fund_vars, fetch_vars, ghost_vars, hours_vars>>

\* lines 41-47: fetch_gold_price() returns a quote or none; a quote is
\* appended under the lock and save_data() cleans up
SchedFetch ==
    /\ pc["bg"] = "fetch"
    /\ lock_owner = NoProc
    /\ \E got \in BOOLEAN :
         IF got
         THEN /\ price_history' = CleanupHistory(
                      DequeAppend(price_history, Quote(GoodPrice, clock, "eastmoney")), clock)
              /\ manual_records' = CleanupRecords(manual_records, clock)
         ELSE UNCHANGED <<price_history, manual_records>>
    /\ pc' = [pc EXCEPT !["bg"] = "sleep"]
    /\ UNCHANGED <<clock, ticks, bg_wake, calls, sources, lock_owner, last, summary>>
    /\ UNCHANGED <<fund_vars, fetch_vars, ghost_vars, hours_vars, sched_vars>>

\* line 50: time.sleep(interval)
SchedSleep ==
    /\ pc["bg"] = "sleep"
    /\ bg_wake' = clock + interval
    /\ pc' = [pc EXCEPT !["bg"] = "sleeping"]
    /\ UNCHANGED <<clock, ticks, calls, sources, lock_owner, price_history,
                   manual_records, last, summary>>
    /\ UNCHANGED <<fund_vars, fetch_vars, ghost_vars, hours_vars, sched_vars>>

\* time.sleep returns and the while loop starts over
SchedWake ==
    /\ pc["bg"] = "sleeping"
    /\ clock' = IF bg_wake > clock THEN bg_wake ELSE clock
    /\ pc' = [pc EXCEPT !["bg"] = "top"]
    /\ UNCHANGED <<ticks, bg_wake, calls, sources, lock_owner, price_history,
                   manual_records, last, summary>>
    /\ UNCHANGED <<fund_vars, fetch_vars, ghost_vars, hours_vars, sched_vars>>

\* a second passes between check_trading_events and the status read after it
SchedDelay ==
    /\ pc["bg"] = "status"
    /\ ticks < MaxDelays
    /\ ticks' = ticks + 1
    /\ clock' = clock + 1
    /\ UNCHANGED <<bg_wake, calls, sources, lock_owner, pc, price_history,
                   manual_records, last, summary>>
    /\ UNCHANGED <<fund_vars, fetch_vars, ghost_vars, hours_vars, sched_vars>>

\* a statement inside the try block raises: line 51
SchedRaise ==
    /\ \/ pc["bg"] \in {"events", "status", "fetch"} /\ UNCHANGED <<calls, ticks>>
       \/ pc["bg"] = "top" /\ calls < MaxPolls /\ calls' = calls + 1 /\ ticks' = 0
    /\ pc' = [pc EXCEPT !["bg"] = "except"]
    /\ UNCHANGED <<clock, bg_wake, sources, lock_owner, price_history,
                   manual_records, last, summary>>
    /\ UNCHANGED <<fund_vars, fetch_vars, ghost_vars, hours_vars, sched_vars>>

\* lines 52-53: the handler prints and sleeps 30 seconds
SchedBackoff ==
    /\ pc["bg"] = "except"
    /\ bg_wake' = clock + ERROR_BACKOFF
    /\ pc' = [pc EXCEPT !["bg"] = AfterBackoff]
    /\ UNCHANGED <<clock, ticks, calls, sources, lock_owner, price_history,
                   manual_records, last, summary>>
    /\ UNCHANGED <<fund_vars, fetch_vars, ghost_vars, hours_vars, sched_vars>>

\* get_fetch_interval("fund") is asked for, before the loop starts
AskFundInterval ==
    /\ calls = 0
    /\ pc["bg"] = "top"
    /\ last' = [op |-> "interval", before |-> <<>>,
                arg |-> <<get_fetch_interval("fund", clock)>>, now |-> clock]
    /\ UNCHANGED <<clock, ticks, bg_wake, calls, sources, lock_owner, pc, price_history,
                   manual_records, summary>>
    /\ UNCHANGED <<fund_vars, fetch_vars, ghost_vars, hours_vars, sched_vars>>

\* the loop starts a few seconds before a change of phase: on a Tuesday, or
\* on a Friday evening
StartInstants ==
    {Combine(1, e - k) : e \in {HM(2, 30), HM(15, 30)}, k \in {3, 6}}
        \cup {Combine(1, e - 3) : e \in {HM(8, 59), HM(15, 0), HM(20, 0)}}
        \cup {Combine(4, HM(20, 0) - 3)}

\* the starts from which the progress of the loop is followed
FairStartInstants == {Combine(1, HM(2, 30) - 3), Combine(1, HM(15, 0) - 3), Combine(4, HM(20, 0) - 3)}

InitSched ==
    /\ InitLocals
    /\ pc = [p \in Procs |-> IF p = "bg" THEN "top" ELSE "idle"]
    /\ clock \in StartInstants
    /\ calendar = NoCalendars
    /\ sources = [i \in SourceIds |-> [enabled |-> TRUE, fail_count |-> 0, mute_until |-> 0]]
    /\ price_history = <<>>
    /\ manual_records = <<>>

NextSched ==
    \/ SchedInterval
    \/ SchedEvents
    \/ SchedStatus
    \/ SchedFetch
    \/ SchedSleep
    \/ SchedWake
    \/ SchedDelay
    \/ SchedRaise
    \/ SchedBackoff
    \/ AskFundInterval

SpecSched == InitSched /\ [][NextSched]_vars

InitSchedFair ==
    /\ InitSched
    /\ clock \in FairStartInstants

\* the thread is scheduled and its sleeps end
SpecSchedFair == InitSchedFair /\ [][NextSched]_vars /\ WF_vars(NextSched)

----------------------------------------------------------------------------
(* Funds.  Prices and amounts of money are integers in 1/1000 yuan, shares  *)
(* are whole units, a quote's change is in whole percent, computed rates    *)
(* are in 1/100 percent.  Python's floats are taken as exact rationals; a   *)
(* rounding that falls half way may go to either neighbour.                 *)

FundCodes == {"000001", "000002", "000003"}
NoEntries == [code \in FundCodes |-> <<>>]

\* fetch_fund_from_eastmoney: the dict it returns
FundQuote(code, price, dwjz, change, ts) ==
    [code |-> code, name |-> <<"name", code>>, price |-> price, dwjz |-> dwjz,
     change |-> change, timestamp |-> ts, source |-> <<"eastmoney">>]

\* an entry of fund_holdings
Holding(code, name, cost_price, shares, note) ==
    [code |-> code, name |-> name, cost_price |-> cost_price, shares |-> shares,
     note |-> note]

\* f'基金{code}'
DefaultName(code) == <<"fund", code>>

\* what a call gives that ended in an uncaught ZeroDivisionError
ZeroDivisionError == [raised |-> "ZeroDivisionError"]

\* round(num / den) to the nearest integer, den # 0
RoundNearest(num, den, half_up) ==
    LET n == IF den < 0 THEN 0 - num ELSE num
        d == IF den < 0 THEN 0 - den ELSE den
        q == n \div d
        r == n - q * d
    IN  IF 2 * r < d THEN q
        ELSE IF 2 * r > d THEN q + 1
        ELSE IF half_up THEN q + 1 ELSE q

\* num / den * 100 as a percentage rounded to two places: <<rate>>, or <<>>
\* when the division raises ZeroDivisionError
RatePercent(num, den, half_up) ==
    IF den = 0 THEN <<>>
    ELSE LET n == IF den < 0 THEN 0 - num ELSE num
             d == IF den < 0 THEN 0 - den ELSE den
             whole == n \div d
             rest == n - whole * d
             cents == (rest * 100) \div d
             left == rest * 100 - cents * d
         IN  <<whole * 10000 + cents * 100 + RoundNearest(left * 100, d, half_up)>>

\* round(x, 2) of an amount of money: cents
RoundCents(amount, half_up) == RoundNearest(amount, 10, half_up) * 10

\* variant: the holding is valued at what it cost
MarketValue_AtCost(current_price, cost_price, shares) ==
    IF current_price > 0 THEN cost_price * shares ELSE 0

\* line 170: market_value = current_price * shares if current_price > 0 else 0
MarketValue(current_price, cost_price, shares) ==
    IF current_price > 0 THEN current_price * shares ELSE 0

\* line 174: if cost_price > 0 and current_price > 0
RateGuard(cost_price, current_price) == cost_price > 0 /\ current_price > 0

\* variant: the total rate is computed whatever the total cost
TotalGuard_None(total_cost) == TRUE

\* line 215: if total_cost > 0
TotalGuard(total_cost) == total_cost > 0

\* lines 177-190: yesterday's net value as a fraction <<num, den>>, from dwjz
\* or else from current / (1 + change / 100); a ZeroDivisionError gives 0
PreviousValue(dwjz, current_price, change) ==
    IF dwjz <= 0 /\ current_price > 0 /\ change # 0
    THEN IF 100 + change = 0 THEN <<0, 1>>
         ELSE <<current_price * 100, 100 + change>>
    ELSE <<dwjz, 1>>

\* lines 192-194: today_profit as a fraction
TodayProfit(prev, current_price, shares) ==
    IF prev[1] * prev[2] > 0 /\ current_price > 0
    THEN <<(current_price * prev[2] - prev[1]) * shares, prev[2]>>
    ELSE <<0, 1>>

\* lines 149-212: the entry of one holding
HoldingResult(holding, fund_data, half_up) ==
    LET cost_price == holding.cost_price
        shares == holding.shares
        cost == cost_price * shares
        current_price == IF fund_data # <<>> THEN fund_data[1].price ELSE 0
        change == IF fund_data # <<>> THEN fund_data[1].change ELSE 0
        dwjz == IF fund_data # <<>> THEN fund_data[1].dwjz ELSE 0
        market_value == MarketValue(current_price, cost_price, shares)
        profit_amount == IF current_price > 0 THEN market_value - cost ELSE 0
        profit_rate == IF RateGuard(cost_price, current_price)
                       THEN RatePercent(current_price - cost_price, cost_price, half_up)
                       ELSE <<0>>
        prev == PreviousValue(dwjz, current_price, change)
        today_profit == TodayProfit(prev, current_price, shares)
    IN  [code |-> holding.code,
         name |-> IF fund_data # <<>> THEN fund_data[1].name ELSE holding.name,
         cost_price |-> cost_price,
         shares |-> shares,
         current_price |-> current_price,
         change |-> change,
         profit_rate |-> profit_rate,
         profit_amount |-> RoundCents(profit_amount, half_up),
         today_profit |-> RoundNearest(today_profit[1], today_profit[2] * 10, half_up) * 10,
         market_value |-> RoundCents(market_value, half_up),
         cost |-> RoundCents(cost, half_up),
         source |-> IF fund_data # <<>> THEN fund_data[1].source ELSE <<"--">>,
         note |-> holding.note,
         data_available |-> fund_data # <<>>,
         raw_cost |-> cost,
         raw_value |-> market_value]

RECURSIVE SumField(_, _)
SumField(results, f) ==
    IF results = <<>> THEN 0 ELSE Head(results)[f] + SumField(Tail(results), f)

\* the entry as the response shows it: without the unrounded running sums
Shown(r) ==
    [f \in (DOMAIN r) \ {"raw_cost", "raw_value"} |->
        IF f = "profit_rate" THEN r[f][1] ELSE r[f]]

\* build_holdings_response; the result is ZeroDivisionError when a division
\* by zero is not caught
build_holdings_response(holdings, fund_data_list, cached_map, now, half_up) ==
    LET fund_data(i) == IF fund_data_list[i] # <<>> THEN fund_data_list[i]
                        ELSE cached_map[holdings[i].code]
        results == [i \in 1..Len(holdings) |-> HoldingResult(holdings[i], fund_data(i), half_up)]
        total_cost == SumField(results, "raw_cost")
        total_value == SumField(results, "raw_value")
        total_profit == total_value - total_cost
        total_profit_rate == IF TotalGuard(total_cost)
                             THEN RatePercent(total_profit, total_cost, half_up)
                             ELSE <<0>>
    IN  IF \/ total_profit_rate = <<>>
           \/ \E i \in 1..Len(holdings) : results[i].profit_rate = <<>>
        THEN ZeroDivisionError
        ELSE [success |-> TRUE,
              data |-> [i \in 1..Len(holdings) |-> Shown(results[i])],
              summary |-> [total_cost |-> RoundCents(total_cost, half_up),
                           total_value |-> RoundCents(total_value, half_up),
                           total_profit |-> RoundCents(total_profit, half_up),
                           total_profit_rate |-> total_profit_rate[1],
                           count |-> Len(holdings)],
              last_update |-> now]

----------------------------------------------------------------------------
(* build_holdings_response over holdings and quotes of every kind:          *)
(* SpecValuation                                                            *)

ValCostPrices == {0, 1000, 1234}
ValShares == {1000, 333}
ValPrices == {0, 1050, 999}
ValChanges == {0, 0 - 100, 5}
ValNetValues == {0, 1000}

ValHoldingLists ==
    {<<>>}
      \cup {<<Holding("000001", DefaultName("000001"), cp, sh, "")>> :
                cp \in ValCostPrices, sh \in ValShares}
      \cup {<<Holding("000001", DefaultName("000001"), cp, sh, ""),
              Holding("000002", DefaultName("000002"), cp2, 1000, "")>> :
                cp \in ValCostPrices, sh \in ValShares, cp2 \in {0, 1000}}

ValQuotes(code) ==
    {<<>>} \cup {<<FundQuote(code, p, d, ch, 0)>> :
                    p \in ValPrices, d \in ValNetValues, ch \in ValChanges}

\* the valuation of the holdings, with the quotes fetched or only cached
VBuild ==
    /\ frames["c1"] = Idle
    /\ \E from_cache \in SUBSET FundCodes, half_up \in BOOLEAN :
         LET codes == [i \in 1..Len(fund_holdings) |-> fund_holdings[i].code]
             fund_data_list == [i \in 1..Len(codes) |->
                                   IF codes[i] \in from_cache THEN <<>> ELSE fund_cache[codes[i]]]
             response == build_holdings_response(fund_holdings, fund_data_list,
                                                 fund_cache, clock, half_up)
         IN  /\ holdings_cache' = [timestamp |-> clock, response |-> <<response>>]
             /\ frames' = [frames EXCEPT !["c1"] = [op |-> "valuation", pc |-> "done"]]
    /\ UNCHANGED <<fund_watchlist, fund_cache, fund_holdings, fund_refreshing,
                   holdings_refreshing, fund_portfolios, saved, workers, served, fetched>>
    /\ UNCHANGED <<clock, last, gold_vars>>

InitValuation ==
    /\ InitGoldLocals
    /\ InitFundLocals
    /\ InitGoldIdle
    /\ clock = 0
    /\ fund_watchlist = <<>>
    /\ fund_holdings \in ValHoldingLists
    /\ \E q1 \in ValQuotes("000001"), q2 \in {<<>>, <<FundQuote("000002", 1050, 1000, 5, 0)>>} :
         fund_cache = [NoEntries EXCEPT !["000001"] = q1, !["000002"] = q2]
    /\ holdings_cache = NoHoldingsCache
    /\ fund_portfolios = NoEntries
    /\ saved = NoDocument

NextValuation == VBuild

SpecValuation == InitValuation /\ [][NextValuation]_vars

----------------------------------------------------------------------------
(* Fund quotes and the two single-flight refreshers                         *)

\* requests in one behaviour
MaxRequests == 3

\* what fetch_fund_data can come back with: the quote of the main source,
\* the quote of the backup source, or None
FetchOutcomes == {"eastmoney", "sina", "none"}

\* the estimate the upstream publishes while the model runs
FetchedPrice == 1050

\* fetch_fund_from_sina: the dict it returns
SinaQuote(code, price, ts) ==
    [code |-> code, name |-> <<"name", code>>, price |-> price, dwjz |-> price,
     change |-> 0, timestamp |-> ts, source |-> <<"sina">>]

\* fetch_fund_data: the main source first, then the backup (<<>> is None)
fetch_fund_data(code, outcome, now) ==
    CASE outcome = "eastmoney" -> <<FundQuote(code, FetchedPrice, FetchedPrice - 50, 5, now)>>
      [] outcome = "sina"      -> <<SinaQuote(code, FetchedPrice, now)>>
      [] outcome = "none"      -> <<>>

\* executor.map(fetch_fund_data, codes): one result per code, in the order of
\* the codes
FetchAll(codes, outcomes, now) ==
    [i \in 1..Len(codes) |-> fetch_fund_data(codes[i], outcomes[i], now)]

\* the entries the fetches add to the history; by is the number of the
\* request that fetched, 0 for a refresh worker
FetchLog(codes, by) == {[what |-> "quote", code |-> codes[i], by |-> by] : i \in 1..Len(codes)}

\* for i, data in enumerate(fetched_list): if data: fund_cache[codes[i]] = data
RECURSIVE StoreQuotes(_, _, _)
StoreQuotes(cache, codes, fetched_list) ==
    IF codes = <<>> THEN cache
    ELSE StoreQuotes(IF Head(fetched_list) # <<>>
                     THEN [cache EXCEPT ![Head(codes)] = Head(fetched_list)]
                     ELSE cache,
                     Tail(codes), Tail(fetched_list))

CodesOf(holdings) == [i \in 1..Len(holdings) |-> holdings[i].code]

\* an entry of temp_results: the dict, and whether it is the very object that
\* fund_cache holds (alias) or a dict of its own
Entry(val, alias) == <<[val |-> val, alias |-> alias]>>

\* does the frame hold, for the code, the object that fund_cache holds
Aliases(frame, code) ==
    /\ frame.op = "get_funds"
    /\ frame.temp_results[code] # <<>>
    /\ frame.temp_results[code][1].alias

\* fund_cache[code] is bound to another dict: the frames keep the old one
Detach(F, code) ==
    [c \in Clients |->
        IF Aliases(F[c], code)
        THEN [F[c] EXCEPT !.temp_results[code] = Entry(@[1].val, FALSE)]
        ELSE F[c]]

RECURSIVE DetachAll(_, _, _)
DetachAll(F, codes, fetched_list) ==
    IF codes = <<>> THEN F
    ELSE DetachAll(IF Head(fetched_list) # <<>> THEN Detach(F, Head(codes)) ELSE F,
                   Tail(codes), Tail(fetched_list))

\* the dict that fund_cache holds for the code is changed in place: every
\* frame that holds it sees the change
InPlace(F, code, item) ==
    [c \in Clients |->
        IF Aliases(F[c], code)
        THEN [F[c] EXCEPT !.temp_results[code] = Entry(item, TRUE)]
        ELSE F[c]]

\* variant: the flag is not looked at
InFlight_Ignored(flag) == FALSE

\* if state.fund_refreshing: return / if state.holdings_refreshing: return
InFlight(flag) == flag

Worker(kind, arg) == [kind |-> kind, stage |-> "fetch", arg |-> arg, got |-> <<>>, cached_map |-> <<>>]

WorkersOf(kind) == {i \in 1..Len(workers) : workers[i].kind = kind}

RemoveAt(seq, i) == [k \in 1..(Len(seq) - 1) |-> IF k < i THEN seq[k] ELSE seq[k + 1]]

\* refresh_fund_cache_async, lines 119-125: nothing to refresh, or a refresh
\* in flight, or the flag is taken
RefreshFundCheck(c) ==
    /\ frames[c].pc = "fund_refresh"
    /\ IF frames[c].refresh = <<>> \/ InFlight(fund_refreshing)
       THEN /\ frames' = [frames EXCEPT ![c].pc = "after_refresh", ![c].started = FALSE]
            /\ UNCHANGED fund_refreshing
       ELSE /\ fund_refreshing' = TRUE
            /\ frames' = [frames EXCEPT ![c].pc = "fund_spawn", ![c].started = TRUE]
    /\ UNCHANGED <<fund_watchlist, fund_cache, fund_holdings, holdings_cache,
                   holdings_refreshing, fund_portfolios, saved, workers, served, fetched>>
    /\ UNCHANGED <<clock, last, gold_vars>>

\* line 139: threading.Thread(target=_worker, daemon=True).start()
RefreshFundSpawn(c) ==
    /\ frames[c].pc = "fund_spawn"
    /\ workers' = Append(workers, Worker("fund", frames[c].refresh))
    /\ frames' = [frames EXCEPT ![c].pc = "after_refresh"]
    /\ UNCHANGED <<fund_watchlist, fund_cache, fund_holdings, holdings_cache, fund_refreshing,
                   holdings_refreshing, fund_portfolios, saved, served, fetched>>
    /\ UNCHANGED <<clock, last, gold_vars>>

\* refresh_holdings_cache_async, lines 233-239
RefreshHoldingsCheck(c) ==
    /\ frames[c].pc = "holdings_refresh"
    /\ IF frames[c].refresh = <<>> \/ InFlight(holdings_refreshing)
       THEN /\ frames' = [frames EXCEPT ![c].pc = "after_refresh", ![c].started = FALSE]
            /\ UNCHANGED holdings_refreshing
       ELSE /\ holdings_refreshing' = TRUE
            /\ frames' = [frames EXCEPT ![c].pc = "holdings_spawn", ![c].started = TRUE]
    /\ UNCHANGED <<fund_watchlist, fund_cache, fund_holdings, holdings_cache,
                   fund_refreshing, fund_portfolios, saved, workers, served, fetched>>
    /\ UNCHANGED <<clock, last, gold_vars>>

\* line 261: threading.Thread(target=_worker, daemon=True).start()
RefreshHoldingsSpawn(c) ==
    /\ frames[c].pc = "holdings_spawn"
    /\ workers' = Append(workers, Worker("holdings", frames[c].refresh))
    /\ frames' = [frames EXCEPT ![c].pc = "after_refresh"]
    /\ UNCHANGED <<fund_watchlist, fund_cache, fund_holdings, holdings_cache, fund_refreshing,
                   holdings_refreshing, fund_portfolios, saved, served, fetched>>
    /\ UNCHANGED <<clock, last, gold_vars>>

\* _worker, lines 129-130 and 243-245: the pool fetches every code
WorkerFetch(i) ==
    /\ workers[i].stage = "fetch"
    /\ LET codes == IF workers[i].kind = "fund" THEN workers[i].arg ELSE CodesOf(workers[i].arg)
       IN  /\ \E outcomes \in [1..Len(codes) -> FetchOutcomes] :
                workers' = [workers EXCEPT ![i].got = FetchAll(codes, outcomes, clock),
                                           ![i].stage = "write"]
           /\ fetched' = fetched \cup FetchLog(codes, 0)
    /\ UNCHANGED <<fund_watchlist, fund_cache, fund_holdings, holdings_cache, fund_refreshing,
                   holdings_refreshing, fund_portfolios, saved, frames, served>>
    /\ UNCHANGED <<clock, last, gold_vars>>

\* _worker, lines 131-134 and 247-251: under the lock, the quotes that came
\* go into fund_cache; the holdings worker first copies what the cache had
WorkerWrite(i) ==
    /\ workers[i].stage = "write"
    /\ LET codes == IF workers[i].kind = "fund" THEN workers[i].arg ELSE CodesOf(workers[i].arg)
       IN  /\ fund_cache' = StoreQuotes(fund_cache, codes, workers[i].got)
           /\ frames' = DetachAll(frames, codes, workers[i].got)
           /\ workers' = IF workers[i].kind = "fund"
                         THEN [workers EXCEPT ![i].stage = "finish"]
                         ELSE [workers EXCEPT ![i].stage = "store", ![i].cached_map = fund_cache]
    /\ UNCHANGED <<fund_watchlist, fund_holdings, holdings_cache, fund_refreshing,
                   holdings_refreshing, fund_portfolios, saved, served, fetched>>
    /\ UNCHANGED <<clock, last, gold_vars>>

\* _worker of the holdings refresh, lines 253-256: the response is built and
\* stored with the time of the store
WorkerStore(i) ==
    /\ workers[i].stage = "store"
    /\ workers' = [workers EXCEPT ![i].stage = "finish"]
    /\ \E half_up \in BOOLEAN :
         LET response == build_holdings_response(workers[i].arg, workers[i].got,
                                                 workers[i].cached_map, clock, half_up)
         IN  holdings_cache' = IF response = ZeroDivisionError THEN holdings_cache
                               ELSE [timestamp |-> clock, response |-> <<response>>]
    /\ UNCHANGED <<fund_watchlist, fund_cache, fund_holdings, fund_refreshing,
                   holdings_refreshing, fund_portfolios, saved, frames, served, fetched>>
    /\ UNCHANGED <<clock, last, gold_vars>>

\* _worker, lines 135-137 and 257-259: finally the flag is given back and the
\* thread ends
WorkerFinish(i) ==
    /\ workers[i].stage = "finish"
    /\ IF workers[i].kind = "fund"
       THEN fund_refreshing' = FALSE /\ UNCHANGED holdings_refreshing
       ELSE holdings_refreshing' = FALSE /\ UNCHANGED fund_refreshing
    /\ workers' = RemoveAt(workers, i)
    /\ UNCHANGED <<fund_watchlist, fund_cache, fund_holdings, holdings_cache,
                   fund_portfolios, saved, frames, served, fetched>>
    /\ UNCHANGED <<clock, last, gold_vars>>

WorkerStep ==
    \E i \in 1..Len(workers) :
        WorkerFetch(i) \/ WorkerWrite(i) \/ WorkerStore(i) \/ WorkerFinish(i)

----------------------------------------------------------------------------
(* The refreshers called by concurrent requests: SpecRefresh               *)

RefreshCodes == {<<>>, <<"000001">>, <<"000001", "000002">>}
RefreshHoldings == {<<>>, <<Holding("000001", DefaultName("000001"), 1000, 1000, "")>>}

\* a request reaches the call of refresh_fund_cache_async(codes)
CallRefreshFund(c) ==
    /\ frames[c] = Idle
    /\ served < MaxRequests
    /\ served' = served + 1
    /\ \E codes \in RefreshCodes :
         frames' = [frames EXCEPT ![c] = [op |-> "refresh", pc |-> "fund_refresh",
                                          refresh |-> codes, started |-> FALSE]]
    /\ UNCHANGED <<fund_watchlist, fund_cache, fund_holdings, holdings_cache, fund_refreshing,
                   holdings_refreshing, fund_portfolios, saved, workers, fetched>>
    /\ UNCHANGED <<clock, last, gold_vars>>

\* a request reaches the call of refresh_holdings_cache_async(holdings)
CallRefreshHoldings(c) ==
    /\ frames[c] = Idle
    /\ served < MaxRequests
    /\ served' = served + 1
    /\ \E holdings \in RefreshHoldings :
         frames' = [frames EXCEPT ![c] = [op |-> "refresh", pc |-> "holdings_refresh",
                                          refresh |-> holdings, started |-> FALSE]]
    /\ UNCHANGED <<fund_watchlist, fund_cache, fund_holdings, holdings_cache, fund_refreshing,
                   holdings_refreshing, fund_portfolios, saved, workers, fetched>>
    /\ UNCHANGED <<clock, last, gold_vars>>

\* the request that called is over
RefreshReturn(c) ==
    /\ frames[c].op = "refresh"
    /\ frames[c].pc = "after_refresh"
    /\ frames' = [frames EXCEPT ![c] = Idle]
    /\ UNCHANGED <<fund_watchlist, fund_cache, fund_holdings, holdings_cache, fund_refreshing,
                   holdings_refreshing, fund_portfolios, saved, workers, served, fetched>>
    /\ UNCHANGED <<clock, last, gold_vars>>

InitRefresh ==
    /\ InitGoldLocals
    /\ InitGoldIdle
    /\ InitNoFunds
    /\ clock = 0

NextRefresh ==
    \/ \E c \in Clients :
         \/ CallRefreshFund(c)
         \/ CallRefreshHoldings(c)
         \/ RefreshFundCheck(c)
         \/ RefreshFundSpawn(c)
         \/ RefreshHoldingsCheck(c)
         \/ RefreshHoldingsSpawn(c)
         \/ RefreshReturn(c)
    \/ WorkerStep

SpecRefresh == InitRefresh /\ [][NextRefresh]_vars

----------------------------------------------------------------------------
(* The refreshers with fetches that raise, and threads that get their       *)
(* turn: SpecFlags, SpecFlagsFair                                           *)

\* variant: an exception ends the thread at once
AfterRaise_NoFinally == "ended"

\* try: ... finally: the exception leaves the try block through the finally
\* clause, lines 135-137 and 257-259
AfterRaise == "finish"

\* _worker: the pool, a fetch, the write or build_holdings_response raises
WorkerRaise(i) ==
    /\ workers[i].stage \in {"fetch", "write", "store"}
    /\ workers' = [workers EXCEPT ![i].stage = AfterRaise]
    /\ fetched' = fetched \cup {[what |-> "raised", code |-> workers[i].kind, by |-> 0]}
    /\ UNCHANGED <<fund_watchlist, fund_cache, fund_holdings, holdings_cache, fund_refreshing,
                   holdings_refreshing, fund_portfolios, saved, frames, served>>
    /\ UNCHANGED <<clock, last, gold_vars>>

\* the thread of a request goes on to start the worker
Spawns(c) == RefreshFundSpawn(c) \/ RefreshHoldingsSpawn(c)

\* the worker of the kind takes its next step
WorkerOf(kind) ==
    \E i \in WorkersOf(kind) :
        WorkerRaise(i) \/ WorkerFetch(i) \/ WorkerWrite(i) \/ WorkerStore(i) \/ WorkerFinish(i)

NextFlags ==
    \/ \E c \in Clients :
         \/ served < Cardinality(Clients) /\ CallRefreshFund(c)
         \/ served < Cardinality(Clients) /\ CallRefreshHoldings(c)
         \/ RefreshFundCheck(c)
         \/ RefreshHoldingsCheck(c)
         \/ Spawns(c)
         \/ RefreshReturn(c)
    \/ \E kind \in {"fund", "holdings"} : WorkerOf(kind)

SpecFlags == InitRefresh /\ [][NextFlags]_vars

\* where the workers of the kind are
StagesOf(kind) == {workers[i].stage : i \in WorkersOf(kind)}

\* the threads are scheduled: a request that took a flag gets to start its
\* worker, and a worker that can take a step does
SpecFlagsFair ==
    /\ SpecFlags
    /\ \A c \in Clients : WF_<<frames[c].pc>>(Spawns(c))
    /\ \A kind \in {"fund", "holdings"} : WF_<<StagesOf(kind)>>(WorkerOf(kind))

----------------------------------------------------------------------------
(* GET /api/funds: SpecFunds                                                *)

CACHE_TTL_SECONDS == 60
FUND_STALE_TTL_SECONDS == 300

\* the marks appended to a quote's source: "(缓存)" and "(过期)"
CachedMark == "(cached)"
ExpiredMark == "(expired)"

Contains(seq, x) == \E i \in 1..Len(seq) : seq[i] = x

\* if mark not in item['source']: item['source'] = item['source'] + mark
Annotate(item, mark) ==
    IF Contains(item.source, mark) THEN item
    ELSE [item EXCEPT !.source = Append(@, mark)]

\* the record returned for a code with no quote and no cache entry
Placeholder(code) ==
    [code |-> code, name |-> <<"load failed">>, price |-> 0, change |-> 0, source |-> <<"Error">>]

\* variant: everything younger than the stale bound counts as fresh
IsFresh_UpToStale(age) == age < FUND_STALE_TTL_SECONDS

\* current_time - cache_item['timestamp'] < CACHE_TTL_SECONDS
IsFresh(age) == age < CACHE_TTL_SECONDS

\* fast_mode and cache_item and age < FUND_STALE_TTL_SECONDS
IsStaleUsable(fast_mode, age) == fast_mode /\ age < FUND_STALE_TTL_SECONDS

NoResults == [code \in FundCodes |-> <<>>]

\* the loop of lines 1281-1293 over the snapshot of the watchlist
RECURSIVE Classify(_, _, _, _)
Classify(acc, codes, fast_mode, current_time) ==
    IF codes = <<>> THEN acc
    ELSE LET code == Head(codes)
             cache_item == fund_cache[code]
             age == current_time - cache_item[1].timestamp
             next ==
               IF cache_item # <<>> /\ IsFresh(age)
               THEN [acc EXCEPT !.temp_results[code] = Entry(cache_item[1], TRUE)]
               ELSE IF cache_item # <<>> /\ IsStaleUsable(fast_mode, age)
               THEN [acc EXCEPT !.temp_results[code] = Entry(Annotate(cache_item[1], CachedMark), FALSE),
                                !.codes_to_refresh = Append(@, code)]
               ELSE [acc EXCEPT !.codes_to_fetch = Append(@, code)]
         IN  Classify(next, Tail(codes), fast_mode, current_time)

CompletionOrders(n) == {p \in [1..n -> 1..n] : \A i, j \in 1..n : i # j => p[i] # p[j]}

\* variant: the results in the order in which the pool's workers completed
executor_map_AsCompleted(got, order) == [i \in 1..Len(got) |-> got[order[i]]]

\* list(executor.map(fetch_fund_data, codes)): the results in the order of the
\* codes, whatever the order in which the pool's workers completed
executor_map(got, order) == [i \in 1..Len(got) |-> got[i]]

\* the loop of lines 1300-1318, under the lock
RECURSIVE MergeFetched(_, _, _, _)
MergeFetched(acc, c, codes, fetched_list) ==
    IF codes = <<>> THEN acc
    ELSE LET code == Head(codes)
             quote == Head(fetched_list)
             old_cache == acc.cache[code]
             stale == Annotate(old_cache[1], ExpiredMark)
             next ==
               IF quote # <<>>
               THEN [cache |-> [acc.cache EXCEPT ![code] = quote],
                     F |-> [Detach(acc.F, code) EXCEPT ![c].temp_results[code] = Entry(quote[1], TRUE)]]
               ELSE IF old_cache # <<>>
               THEN [cache |-> [acc.cache EXCEPT ![code] = <<stale>>],
                     F |-> [InPlace(acc.F, code, stale) EXCEPT ![c].temp_results[code] = Entry(stale, TRUE)]]
               ELSE [cache |-> acc.cache,
                     F |-> [acc.F EXCEPT ![c].temp_results[code] = Entry(Placeholder(code), FALSE)]]
         IN  MergeFetched(next, c, Tail(codes), Tail(fetched_list))

\* if fast_mode and codes_to_refresh: refresh_fund_cache_async(codes_to_refresh)
AfterMerge(frame) ==
    IF frame.fast_mode /\ frame.codes_to_refresh # <<>> THEN "fund_refresh" ELSE "after_refresh"

\* [temp_results.get(code) for code in current_watchlist if temp_results.get(code)]
RECURSIVE Results(_, _)
Results(temp_results, codes) ==
    IF codes = <<>> THEN <<>>
    ELSE IF temp_results[Head(codes)] # <<>>
         THEN <<temp_results[Head(codes)][1].val>> \o Results(temp_results, Tail(codes))
         ELSE Results(temp_results, Tail(codes))

\* get_funds, lines 1271-1276: the mode, the time and the snapshot of the
\* watchlist
GetFundsBegin(c) ==
    /\ frames[c] = Idle
    /\ served < Cardinality(Clients)
    /\ served' = served + 1
    /\ \E fast_mode \in BOOLEAN :
         frames' = [frames EXCEPT ![c] =
             [op |-> "get_funds", pc |-> "classify", id |-> served + 1,
              fast_mode |-> fast_mode, current_time |-> clock,
              current_watchlist |-> fund_watchlist, seen |-> <<>>, before |-> <<>>,
              codes_to_fetch |-> <<>>, codes_to_refresh |-> <<>>, temp_results |-> NoResults,
              fetched_data_list |-> <<>>, refresh |-> <<>>, started |-> FALSE, calls |-> 0,
              results |-> <<>>]]
    /\ UNCHANGED <<fund_watchlist, fund_cache, fund_holdings, holdings_cache, fund_refreshing,
                   holdings_refreshing, fund_portfolios, saved, workers, fetched>>
    /\ UNCHANGED <<clock, last, gold_vars>>

\* get_funds, lines 1278-1293: each code is served from the cache, or served
\* stale and queued for a refresh, or queued for a fetch
GetFundsClassify(c) ==
    /\ frames[c].op = "get_funds"
    /\ frames[c].pc = "classify"
    /\ LET sorted == Classify([frames[c] EXCEPT !.seen = fund_cache], frames[c].current_watchlist,
                              frames[c].fast_mode, frames[c].current_time)
           calling == sorted.codes_to_fetch = <<>> /\ AfterMerge(sorted) = "fund_refresh"
       IN  frames' = [frames EXCEPT ![c] =
               [sorted EXCEPT !.pc = IF sorted.codes_to_fetch # <<>> THEN "fetch" ELSE AfterMerge(sorted),
                              !.refresh = sorted.codes_to_refresh,
                              !.calls = IF calling THEN 1 ELSE 0]]
    /\ UNCHANGED <<fund_watchlist, fund_cache, fund_holdings, holdings_cache, fund_refreshing,
                   holdings_refreshing, fund_portfolios, saved, workers, served, fetched>>
    /\ UNCHANGED <<clock, last, gold_vars>>

\* get_funds, lines 1296-1298: the pool fetches the queued codes
GetFundsFetch(c) ==
    /\ frames[c].op = "get_funds"
    /\ frames[c].pc = "fetch"
    /\ LET codes == frames[c].codes_to_fetch
       IN  /\ \E outcomes \in [1..Len(codes) -> FetchOutcomes], order \in CompletionOrders(Len(codes)) :
                frames' = [frames EXCEPT ![c].fetched_data_list =
                                             executor_map(FetchAll(codes, outcomes, clock), order),
                                         ![c].pc = "merge"]
           /\ fetched' = fetched \cup FetchLog(codes, frames[c].id)
    /\ UNCHANGED <<fund_watchlist, fund_cache, fund_holdings, holdings_cache, fund_refreshing,
                   holdings_refreshing, fund_portfolios, saved, workers, served>>
    /\ UNCHANGED <<clock, last, gold_vars>>

\* get_funds, lines 1300-1318: under the lock, a quote that came is cached
\* and returned; for one that did not, the cache entry is marked expired in
\* place and returned, or a placeholder is returned
GetFundsMerge(c) ==
    /\ frames[c].op = "get_funds"
    /\ frames[c].pc = "merge"
    /\ LET merged == MergeFetched([cache |-> fund_cache, F |-> frames], c,
                                  frames[c].codes_to_fetch, frames[c].fetched_data_list)
           calling == AfterMerge(frames[c]) = "fund_refresh"
       IN  /\ fund_cache' = merged.cache
           /\ frames' = [merged.F EXCEPT ![c].pc = AfterMerge(frames[c]),
                                         ![c].before = fund_cache,
                                         ![c].calls = IF calling THEN 1 ELSE 0]
    /\ UNCHANGED <<fund_watchlist, fund_holdings, holdings_cache, fund_refreshing,
                   holdings_refreshing, fund_portfolios, saved, workers, served, fetched>>
    /\ UNCHANGED <<clock, last, gold_vars>>

\* get_funds, lines 1323-1325: the response is put together and serialised
GetFundsReturn(c) ==
    /\ frames[c].op = "get_funds"
    /\ frames[c].pc = "after_refresh"
    /\ frames' = [frames EXCEPT ![c].results = Results(frames[c].temp_results, frames[c].current_watchlist),
                                ![c].temp_results = NoResults,
                                ![c].pc = "done"]
    /\ UNCHANGED <<fund_watchlist, fund_cache, fund_holdings, holdings_cache, fund_refreshing,
                   holdings_refreshing, fund_portfolios, saved, workers, served, fetched>>
    /\ UNCHANGED <<clock, last, gold_vars>>

\* the response has been sent
RequestEnd(c) ==
    /\ frames[c].pc = "done"
    /\ frames' = [frames EXCEPT ![c] = Idle]
    /\ UNCHANGED <<fund_watchlist, fund_cache, fund_holdings, holdings_cache, fund_refreshing,
                   holdings_refreshing, fund_portfolios, saved, workers, served, fetched>>
    /\ UNCHANGED <<clock, last, gold_vars>>

\* the instant of the requests
FundsNow == 1000

FundWatchlists == {<<"000001", "000002", "000003">>, <<"000002", "000001">>, <<"000003">>}

\* a quote cached age seconds before the requests
CachedQuote(code, age) == <<FundQuote(code, 1000, 990, 1, FundsNow - age)>>

\* what fund_cache holds at the start: per code nothing, or a quote that is
\* fresh (30 s), stale but usable (100 s), or older than that (400 s)
FundCaches ==
    {[code \in FundCodes |-> <<>>],
     "000001" :> CachedQuote("000001", 30) @@ "000002" :> CachedQuote("000002", 100) @@ "000003" :> <<>>,
     "000001" :> CachedQuote("000001", 400) @@ "000002" :> CachedQuote("000002", 100)
         @@ "000003" :> CachedQuote("000003", 30),
     "000001" :> CachedQuote("000001", 100) @@ "000002" :> CachedQuote("000002", 400)
         @@ "000003" :> CachedQuote("000003", 400)}

InitFunds ==
    /\ InitGoldLocals
    /\ InitGoldIdle
    /\ InitFundLocals
    /\ clock = FundsNow
    /\ fund_watchlist \in FundWatchlists
    /\ fund_cache \in FundCaches
    /\ fund_holdings = <<>>
    /\ holdings_cache = NoHoldingsCache
    /\ fund_portfolios = [code \in FundCodes |-> <<>>]
    /\ saved = NoDocument

NextFunds ==
    \/ \E c \in Clients :
         \/ GetFundsBegin(c)
         \/ GetFundsClassify(c)
         \/ GetFundsFetch(c)
         \/ GetFundsMerge(c)
         \/ RefreshFundCheck(c)
         \/ RefreshFundSpawn(c)
         \/ GetFundsReturn(c)
         \/ RequestEnd(c)
    \/ WorkerStep

SpecFunds == InitFunds /\ [][NextFunds]_vars

----------------------------------------------------------------------------
(* GET /api/holdings and DELETE /api/holdings/<code>: SpecHoldings          *)

HOLDINGS_CACHE_TTL_SECONDS == 10
HOLDINGS_STALE_TTL_SECONDS == 300

\* get_holdings, lines 1407-1412: the response over no holdings
EmptyResponse(now) ==
    [success |-> TRUE, data |-> <<>>,
     summary |-> [total_cost |-> 0, total_value |-> 0, total_profit |-> 0,
                  total_profit_rate |-> 0, count |-> 0],
     last_update |-> now]

\* stale_response = dict(cached_response); stale_response["stale"] = True
MarkedStale(response) == ("stale" :> TRUE) @@ response

\* save_data: the document written to the data file
Document == [fund_watchlist |-> fund_watchlist, fund_holdings |-> fund_holdings,
             fund_portfolios |-> fund_portfolios]

\* get_holdings, lines 1387-1403: the modes, the time, the snapshot of the
\* holdings and of the cached response; in fast mode a cached response that
\* is fresh is the answer, and one that is stale but usable is the answer
\* after a call of refresh_holdings_cache_async
GetHoldingsBegin(c) ==
    /\ frames[c] = Idle
    /\ served < Cardinality(Clients)
    /\ served' = served + 1
    /\ \E fast_mode, force_refresh \in BOOLEAN :
         LET cached_response == holdings_cache.response
             age == clock - holdings_cache.timestamp
             usable == fast_mode /\ ~force_refresh /\ cached_response # <<>>
             fresh == usable /\ age < HOLDINGS_CACHE_TTL_SECONDS
             stale == usable /\ ~fresh /\ age < HOLDINGS_STALE_TTL_SECONDS
         IN  frames' = [frames EXCEPT ![c] =
                 [op |-> "get_holdings",
                  pc |-> IF fresh THEN "done"
                         ELSE IF stale THEN "holdings_refresh"
                         ELSE IF fund_holdings = <<>> THEN "store_empty"
                         ELSE "fetch",
                  id |-> served + 1, fast_mode |-> fast_mode, force_refresh |-> force_refresh,
                  now_ts |-> clock, holdings |-> fund_holdings,
                  cached_response |-> cached_response, cached_ts |-> holdings_cache.timestamp,
                  fund_data_list |-> <<>>, cached_map |-> <<>>,
                  refresh |-> fund_holdings, started |-> FALSE,
                  calls |-> IF stale THEN 1 ELSE 0,
                  results |-> IF fresh THEN cached_response ELSE <<>>]]
    /\ UNCHANGED <<fund_watchlist, fund_cache, fund_holdings, holdings_cache, fund_refreshing,
                   holdings_refreshing, fund_portfolios, saved, workers, fetched>>
    /\ UNCHANGED <<clock, last, gold_vars>>

\* get_holdings, lines 1400-1402: the stale response is the answer
GetHoldingsStale(c) ==
    /\ frames[c].op = "get_holdings"
    /\ frames[c].pc = "after_refresh"
    /\ frames' = [frames EXCEPT ![c].results = <<MarkedStale(frames[c].cached_response[1])>>,
                                ![c].pc = "done"]
    /\ UNCHANGED <<fund_watchlist, fund_cache, fund_holdings, holdings_cache, fund_refreshing,
                   holdings_refreshing, fund_portfolios, saved, workers, served, fetched>>
    /\ UNCHANGED <<clock, last, gold_vars>>

\* get_holdings, lines 1405-1416: no holdings, the empty response is stored
GetHoldingsStoreEmpty(c) ==
    /\ frames[c].op = "get_holdings"
    /\ frames[c].pc = "store_empty"
    /\ LET response == EmptyResponse(clock)
       IN  /\ holdings_cache' = [timestamp |-> frames[c].now_ts, response |-> <<response>>]
           /\ frames' = [frames EXCEPT ![c].results = <<response>>, ![c].pc = "done"]
    /\ UNCHANGED <<fund_watchlist, fund_cache, fund_holdings, fund_refreshing,
                   holdings_refreshing, fund_portfolios, saved, workers, served, fetched>>
    /\ UNCHANGED <<clock, last, gold_vars>>

\* get_holdings, lines 1418-1421: the pool fetches the quotes of the holdings
GetHoldingsFetch(c) ==
    /\ frames[c].op = "get_holdings"
    /\ frames[c].pc = "fetch"
    /\ LET codes == CodesOf(frames[c].holdings)
       IN  /\ \E outcomes \in [1..Len(codes) -> FetchOutcomes] :
                frames' = [frames EXCEPT ![c].fund_data_list = FetchAll(codes, outcomes, clock),
                                         ![c].pc = "write"]
           /\ fetched' = fetched \cup FetchLog(codes, frames[c].id)
    /\ UNCHANGED <<fund_watchlist, fund_cache, fund_holdings, holdings_cache, fund_refreshing,
                   holdings_refreshing, fund_portfolios, saved, workers, served>>
    /\ UNCHANGED <<clock, last, gold_vars>>

\* get_holdings, lines 1423-1427: under the lock, what the cache had is
\* copied and the quotes that came are cached
GetHoldingsWrite(c) ==
    /\ frames[c].op = "get_holdings"
    /\ frames[c].pc = "write"
    /\ LET codes == CodesOf(frames[c].holdings)
       IN  /\ fund_cache' = StoreQuotes(fund_cache, codes, frames[c].fund_data_list)
           /\ frames' = [DetachAll(frames, codes, frames[c].fund_data_list)
                            EXCEPT ![c].cached_map = fund_cache, ![c].pc = "store"]
    /\ UNCHANGED <<fund_watchlist, fund_holdings, holdings_cache, fund_refreshing,
                   holdings_refreshing, fund_portfolios, saved, workers, served, fetched>>
    /\ UNCHANGED <<clock, last, gold_vars>>

\* get_holdings, lines 1429-1434: the response is built and stored with the
\* time the request began
GetHoldingsStore(c) ==
    /\ frames[c].op = "get_holdings"
    /\ frames[c].pc = "store"
    /\ \E half_up \in BOOLEAN :
         LET response == build_holdings_response(frames[c].holdings, frames[c].fund_data_list,
                                                 frames[c].cached_map, clock, half_up)
         IN  /\ holdings_cache' = IF response = ZeroDivisionError THEN holdings_cache
                                  ELSE [timestamp |-> frames[c].now_ts, response |-> <<response>>]
             /\ frames' = [frames EXCEPT ![c].results = <<response>>, ![c].pc = "done"]
    /\ UNCHANGED <<fund_watchlist, fund_cache, fund_holdings, fund_refreshing,
                   holdings_refreshing, fund_portfolios, saved, workers, served, fetched>>
    /\ UNCHANGED <<clock, last, gold_vars>>

\* [h for h in fund_holdings if h['code'] != code_to_del]
RECURSIVE WithoutCode(_, _)
WithoutCode(holdings, code) ==
    IF holdings = <<>> THEN <<>>
    ELSE IF Head(holdings).code = code THEN WithoutCode(Tail(holdings), code)
    ELSE <<Head(holdings)>> \o WithoutCode(Tail(holdings), code)

\* delete_holding: one lock section; a holding that goes takes the cached
\* response with it and the document is saved
DeleteHolding(c) ==
    /\ frames[c] = Idle
    /\ served < Cardinality(Clients)
    /\ served' = served + 1
    /\ \E code_to_del \in FundCodes :
         LET kept == WithoutCode(fund_holdings, code_to_del)
             found == Len(kept) < Len(fund_holdings)
         IN  /\ fund_holdings' = kept
             /\ holdings_cache' = IF found THEN NoHoldingsCache ELSE holdings_cache
             /\ saved' = IF found THEN [Document EXCEPT !.fund_holdings = kept] ELSE saved
             /\ frames' = [frames EXCEPT ![c] =
                    [op |-> "delete_holding", pc |-> "done", code |-> code_to_del,
                     results |-> <<[success |-> found]>>]]
    /\ UNCHANGED <<fund_watchlist, fund_cache, fund_refreshing, holdings_refreshing,
                   fund_portfolios, workers, fetched>>
    /\ UNCHANGED <<clock, last, gold_vars>>

\* the instant of the first request, the ages a cached response can have at
\* that instant, and the time that can pass afterwards
HoldingsNow == 1000
HoldingsAges == {5, 20, 400}
HoldingsWaits == {20}

\* time passes, once
HoldingsWait ==
    /\ clock = HoldingsNow
    /\ \E wait \in HoldingsWaits : clock' = clock + wait
    /\ UNCHANGED <<fund_vars, last, gold_vars>>

HoldingLists == {<<>>, <<Holding("000001", DefaultName("000001"), 1000, 1000, "")>>}

\* the response an earlier request left in holdings_cache
CachedResponse(holdings, age) ==
    [timestamp |-> HoldingsNow - age,
     response |-> <<build_holdings_response(holdings, [i \in 1..Len(holdings) |-> <<>>],
                                            [code \in FundCodes |-> <<>>],
                                            HoldingsNow - age, TRUE)>>]

InitHoldings ==
    /\ InitGoldLocals
    /\ InitGoldIdle
    /\ InitFundLocals
    /\ clock = HoldingsNow
    /\ fund_watchlist = <<>>
    /\ fund_cache = [code \in FundCodes |-> <<>>]
    /\ fund_holdings \in HoldingLists
    /\ holdings_cache \in {NoHoldingsCache} \cup {CachedResponse(fund_holdings, age) : age \in HoldingsAges}
    /\ fund_portfolios = [code \in FundCodes |-> <<>>]
    /\ saved = [NoDocument EXCEPT !.fund_holdings = fund_holdings]

NextHoldings ==
    \/ \E c \in Clients :
         \/ GetHoldingsBegin(c)
         \/ RefreshHoldingsCheck(c)
         \/ RefreshHoldingsSpawn(c)
         \/ GetHoldingsStale(c)
         \/ GetHoldingsStoreEmpty(c)
         \/ GetHoldingsFetch(c)
         \/ GetHoldingsWrite(c)
         \/ GetHoldingsStore(c)
         \/ DeleteHolding(c)
         \/ RequestEnd(c)
    \/ WorkerStep
    \/ HoldingsWait

SpecHoldings == InitHoldings /\ [][NextHoldings]_vars

----------------------------------------------------------------------------
(* fetch_fund_portfolio: SpecPortfolio                                      *)

PORTFOLIO_CACHE_TTL == 86400

\* what the reference source can answer to the request of a composition: an
\* exception of requests.get, a status other than 200, a text shorter than
\* 200 characters, a text that says nothing is disclosed, a text in which
\* the pattern finds no row, or a table of stocks
CompositionOutcomes == {"error", "bad_status", "short", "undisclosed", "unparsable", "table"}

\* the stocks of a composition: the one persisted earlier, the one the
\* reference source publishes now, the one the secondary source gives
OldStocks == {"s1"}
NewStocks == {"s2"}
FallbackStocks == {"s3"}

\* an entry of fund_portfolios
Composition(ts, report_period, holdings_info) ==
    [timestamp |-> ts, report_period |-> report_period, holdings_info |-> holdings_info]

\* the dict the function returns: the stocks valued, and of meta the source,
\* the estimate mode and the parse error (<<>> is None)
PortfolioResult(stocks, source, estimate_mode, parse_error) ==
    <<[holdings |-> stocks, source |-> source, estimate_mode |-> estimate_mode,
       parse_error |-> parse_error]>>

\* lines 440-448: the persisted entry is read unless a refresh is forced, and
\* used if it is younger than the TTL
PortfolioBegin(c) ==
    /\ frames[c] = Idle
    /\ served < MaxRequests
    /\ served' = served + 1
    /\ \E fund_code \in {"000001"}, force_refresh \in BOOLEAN :
         LET stale_cache_item == IF force_refresh THEN <<>> ELSE fund_portfolios[fund_code]
             use_cache == /\ stale_cache_item # <<>>
                          /\ clock - stale_cache_item[1].timestamp < PORTFOLIO_CACHE_TTL
         IN  frames' = [frames EXCEPT ![c] =
                 [op |-> "fetch_fund_portfolio",
                  pc |-> IF use_cache THEN "quotes" ELSE "request",
                  id |-> served + 1, fund_code |-> fund_code, force_refresh |-> force_refresh,
                  now_ts |-> clock, stale_cache_item |-> stale_cache_item,
                  found |-> fund_portfolios[fund_code],
                  use_cache |-> use_cache,
                  holdings_info |-> IF use_cache THEN stale_cache_item[1].holdings_info ELSE {},
                  outcome |-> "", results |-> <<>>]]
    /\ UNCHANGED <<fund_watchlist, fund_cache, fund_holdings, holdings_cache, fund_refreshing,
                   holdings_refreshing, fund_portfolios, saved, workers, fetched>>
    /\ UNCHANGED <<clock, last, gold_vars>>

\* lines 451-516: the composition is requested; the early returns, the
\* fallback to the entry read at the start, the fallback to the secondary
\* source
PortfolioRequest(c) ==
    /\ frames[c].op = "fetch_fund_portfolio"
    /\ frames[c].pc = "request"
    /\ fetched' = fetched \cup {[what |-> "composition", code |-> frames[c].fund_code,
                                 by |-> frames[c].id]}
    /\ \E outcome \in CompositionOutcomes, fallback \in {{}, FallbackStocks} :
         LET frame == [frames[c] EXCEPT !.outcome = outcome]
             stale_cache_item == frames[c].stale_cache_item
             usable == stale_cache_item # <<>> /\ stale_cache_item[1].holdings_info # {}
             done(answer) == [frame EXCEPT !.results = answer, !.pc = "done"]
         IN  frames' = [frames EXCEPT ![c] =
                 CASE outcome = "error" -> done(<<>>)
                   [] outcome = "bad_status" ->
                        done(PortfolioResult({}, "eastmoney", "none", <<"request failed">>))
                   [] outcome = "short" ->
                        done(PortfolioResult({}, "eastmoney", "none", <<"response too short">>))
                   [] outcome = "undisclosed" ->
                        done(PortfolioResult({}, "eastmoney", "none", <<"nothing disclosed">>))
                   [] outcome = "unparsable" ->
                        IF usable
                        THEN [frame EXCEPT !.holdings_info = stale_cache_item[1].holdings_info,
                                           !.use_cache = TRUE, !.pc = "quotes"]
                        ELSE IF fallback # {}
                        THEN done(PortfolioResult(fallback, "fallback", "equal_weight",
                                                  <<"parse failed, equal weights">>))
                        ELSE done(PortfolioResult({}, "eastmoney", "none", <<"parse failed">>))
                   [] outcome = "table" ->
                        [frame EXCEPT !.holdings_info = NewStocks, !.pc = "store"]]
    /\ UNCHANGED <<fund_watchlist, fund_cache, fund_holdings, holdings_cache, fund_refreshing,
                   holdings_refreshing, fund_portfolios, saved, workers, served>>
    /\ UNCHANGED <<clock, last, gold_vars>>

\* lines 525-535: the new composition is stored with the time the call began
\* and a thread is started that saves the document
PortfolioStore(c) ==
    /\ frames[c].op = "fetch_fund_portfolio"
    /\ frames[c].pc = "store"
    /\ fund_portfolios' = [fund_portfolios EXCEPT ![frames[c].fund_code] =
                              <<Composition(frames[c].now_ts, "new", frames[c].holdings_info)>>]
    /\ workers' = Append(workers, [kind |-> "save", stage |-> "save"])
    /\ frames' = [frames EXCEPT ![c].pc = "quotes"]
    /\ UNCHANGED <<fund_watchlist, fund_cache, fund_holdings, holdings_cache, fund_refreshing,
                   holdings_refreshing, saved, served, fetched>>
    /\ UNCHANGED <<clock, last, gold_vars>>

\* threading.Thread(target=save_data, daemon=True): the document is written
SaveThread ==
    \E i \in 1..Len(workers) :
        /\ workers[i].kind = "save"
        /\ saved' = Document
        /\ workers' = RemoveAt(workers, i)
        /\ UNCHANGED <<fund_watchlist, fund_cache, fund_holdings, holdings_cache, fund_refreshing,
                       holdings_refreshing, fund_portfolios, frames, served, fetched>>
        /\ UNCHANGED <<clock, last, gold_vars>>

\* lines 572-650: the quotes of the stocks are requested and the result is
\* put together; an exception of that request ends the call with None
PortfolioQuotes(c) ==
    /\ frames[c].op = "fetch_fund_portfolio"
    /\ frames[c].pc = "quotes"
    /\ \E quotes \in {"ok", "error"} :
         LET stale_cache_item == frames[c].stale_cache_item
             expired == /\ frames[c].use_cache
                        /\ stale_cache_item # <<>>
                        /\ stale_cache_item[1].holdings_info # {}
                        /\ ~(frames[c].now_ts - stale_cache_item[1].timestamp < PORTFOLIO_CACHE_TTL)
             answer == IF quotes = "error" THEN <<>>
                       ELSE IF expired
                       THEN PortfolioResult(frames[c].holdings_info, "eastmoney", "cached_stale",
                                            <<"expired cache weights">>)
                       ELSE PortfolioResult(frames[c].holdings_info, "eastmoney", "none", <<>>)
         IN  frames' = [frames EXCEPT ![c].results = answer, ![c].pc = "done"]
    /\ UNCHANGED <<fund_watchlist, fund_cache, fund_holdings, holdings_cache, fund_refreshing,
                   holdings_refreshing, fund_portfolios, saved, workers, served, fetched>>
    /\ UNCHANGED <<clock, last, gold_vars>>

\* the instant of the calls and the ages of the persisted composition
PortfolioNow == 200000
PortfolioAges == {3600, 90000}

InitPortfolio ==
    /\ InitGoldLocals
    /\ InitGoldIdle
    /\ InitFundLocals
    /\ clock = PortfolioNow
    /\ fund_watchlist = <<"000001">>
    /\ fund_cache = [code \in FundCodes |-> <<>>]
    /\ fund_holdings = <<>>
    /\ holdings_cache = NoHoldingsCache
    /\ \E entry \in {<<>>} \cup {<<Composition(PortfolioNow - age, "old", OldStocks)>> : age \in PortfolioAges} :
         fund_portfolios = [code \in FundCodes |-> IF code = "000001" THEN entry ELSE <<>>]
    /\ saved = [NoDocument EXCEPT !.fund_watchlist = fund_watchlist,
                                  !.fund_portfolios = fund_portfolios]

NextPortfolio ==
    \/ \E c \in Clients :
         \/ PortfolioBegin(c)
         \/ PortfolioRequest(c)
         \/ PortfolioStore(c)
         \/ PortfolioQuotes(c)
         \/ RequestEnd(c)
    \/ SaveThread

SpecPortfolio == InitPortfolio /\ [][NextPortfolio]_vars

----------------------------------------------------------------------------
(* POST /api/holdings and POST /api/funds/add: SpecInput                    *)

DigitChars == {"0", "1", "2", "3", "4", "5", "6", "7", "8", "9"}

\* the characters of the codes the upstream knows
CodeChars ==
    "000001" :> <<"0", "0", "0", "0", "0", "1">> @@
    "000002" :> <<"0", "0", "0", "0", "0", "2">> @@
    "000003" :> <<"0", "0", "0", "0", "0", "3">>

\* str.strip()
RECURSIVE lstrip(_)
lstrip(chars) ==
    IF chars # <<>> /\ Head(chars) = " " THEN lstrip(Tail(chars)) ELSE chars

RECURSIVE rstrip(_)
rstrip(chars) ==
    IF chars # <<>> /\ chars[Len(chars)] = " "
    THEN rstrip(SubSeq(chars, 1, Len(chars) - 1)) ELSE chars

strip(chars) == rstrip(lstrip(chars))

\* str.isdigit(): not empty and digits only
isdigit(chars) == chars # <<>> /\ \A i \in 1..Len(chars) : chars[i] \in DigitChars

\* not code or not code.isdigit() or len(code) != 6
InvalidCode(code) == code = <<>> \/ ~isdigit(code) \/ Len(code) # 6

\* the code as the key of fund_cache
KeyOf(code) == CHOOSE key \in FundCodes : CodeChars[key] = code

\* float(req_data.get(field, 0)): the number, or <<>> when TypeError or
\* ValueError is raised; a field that is missing counts as 0
float(raw) ==
    CASE raw.kind = "missing" -> <<0>>
      [] raw.kind = "number"  -> <<raw.value>>
      [] raw.kind = "string"  -> raw.parsed
      [] raw.kind = "null"    -> <<>>

\* variant: only the cost price is tested
NotPositive_CostOnly(cost_price, shares) == cost_price <= 0

\* cost_price <= 0 or shares <= 0
NotPositive(cost_price, shares) == cost_price <= 0 \/ shares <= 0

\* the codes a request can carry: a known code, the same with blanks around
\* it, five digits, seven digits, a letter among the digits, no code
RawCodes ==
    {CodeChars["000001"],
     <<" ">> \o CodeChars["000002"] \o <<" ">>,
     <<"0", "0", "0", "0", "1">>,
     <<"0", "0", "0", "0", "0", "0", "1">>,
     <<"0", "0", "0", "0", "0", "a">>,
     <<>>}

\* the values a request can carry for a number
RawCosts ==
    {[kind |-> "number", value |-> 1234], [kind |-> "number", value |-> 0],
     [kind |-> "number", value |-> 0 - 1000], [kind |-> "string", parsed |-> <<1500>>],
     [kind |-> "string", parsed |-> <<>>], [kind |-> "null"], [kind |-> "missing"]}
RawShares ==
    {[kind |-> "number", value |-> 1000], [kind |-> "number", value |-> 0],
     [kind |-> "string", parsed |-> <<>>]}

Reply(success, message) == <<[success |-> success, message |-> message]>>

\* add_or_update_holding, lines 1443-1459: the body is read and validated
PostHoldingBegin(c) ==
    /\ frames[c] = Idle
    /\ served < Cardinality(Clients)
    /\ served' = served + 1
    /\ \E raw_code \in RawCodes, raw_cost \in RawCosts, raw_shares \in RawShares :
         LET code == strip(raw_code)
             cost_price == float(raw_cost)
             shares == float(raw_shares)
             body == [code |-> raw_code, cost_price |-> raw_cost, shares |-> raw_shares]
             frame == [op |-> "add_or_update_holding", pc |-> "done", id |-> served + 1,
                       body |-> body, outcome |-> "", fund_data |-> <<>>, results |-> <<>>]
         IN  frames' = [frames EXCEPT ![c] =
                 IF InvalidCode(code)
                 THEN [frame EXCEPT !.results = Reply(FALSE, "invalid code")]
                 ELSE IF cost_price = <<>> \/ shares = <<>>
                 THEN [frame EXCEPT !.results = Reply(FALSE, "invalid number")]
                 ELSE IF NotPositive(cost_price[1], shares[1])
                 THEN [frame EXCEPT !.results = Reply(FALSE, "not positive")]
                 ELSE [frame EXCEPT !.pc = "fetch_name"]]
    /\ UNCHANGED <<fund_watchlist, fund_cache, fund_holdings, holdings_cache, fund_refreshing,
                   holdings_refreshing, fund_portfolios, saved, workers, fetched>>
    /\ UNCHANGED <<clock, last, gold_vars>>

\* add_or_update_holding, lines 1461-1463: the name is fetched
PostHoldingFetch(c) ==
    /\ frames[c].op = "add_or_update_holding"
    /\ frames[c].pc = "fetch_name"
    /\ LET key == KeyOf(strip(frames[c].body.code))
       IN  /\ \E outcome \in FetchOutcomes :
                frames' = [frames EXCEPT ![c].fund_data = fetch_fund_data(key, outcome, clock),
                                         ![c].outcome = outcome,
                                         ![c].pc = "update"]
           /\ fetched' = fetched \cup FetchLog(<<key>>, frames[c].id)
    /\ UNCHANGED <<fund_watchlist, fund_cache, fund_holdings, holdings_cache, fund_refreshing,
                   holdings_refreshing, fund_portfolios, saved, workers, served>>
    /\ UNCHANGED <<clock, last, gold_vars>>

\* variant: the entry is appended whether the code is held or not
Upsert_Append(holdings, entry) == Append(holdings, entry)

\* lines 1467-1481: existing = next((h for h in fund_holdings if h['code'] ==
\* code), None); the first entry with the code is overwritten, or the entry
\* is appended
Upsert(holdings, entry) ==
    LET existing == {i \in 1..Len(holdings) : holdings[i].code = entry.code}
        first == CHOOSE i \in existing : \A j \in existing : i <= j
    IN  IF existing # {} THEN [holdings EXCEPT ![first] = entry]
        ELSE Append(holdings, entry)

\* add_or_update_holding, lines 1465-1484: under the lock the holding is
\* updated or appended and the cached response is dropped
PostHoldingUpdate(c) ==
    /\ frames[c].op = "add_or_update_holding"
    /\ frames[c].pc = "update"
    /\ LET key == KeyOf(strip(frames[c].body.code))
           name == IF frames[c].fund_data # <<>> THEN frames[c].fund_data[1].name
                   ELSE DefaultName(key)
           entry == Holding(key, name, float(frames[c].body.cost_price)[1],
                            float(frames[c].body.shares)[1], "")
       IN  fund_holdings' = Upsert(fund_holdings, entry)
    /\ holdings_cache' = NoHoldingsCache
    /\ frames' = [frames EXCEPT ![c].pc = "save"]
    /\ UNCHANGED <<fund_watchlist, fund_cache, fund_refreshing, holdings_refreshing,
                   fund_portfolios, saved, workers, served, fetched>>
    /\ UNCHANGED <<clock, last, gold_vars>>

\* lines 1486-1487 and 1363-1364: save_data() and the reply
RequestSave(c) ==
    /\ frames[c].pc = "save"
    /\ saved' = Document
    /\ frames' = [frames EXCEPT ![c].results = Reply(TRUE, "saved"), ![c].pc = "done"]
    /\ UNCHANGED <<fund_watchlist, fund_cache, fund_holdings, holdings_cache, fund_refreshing,
                   holdings_refreshing, fund_portfolios, workers, served, fetched>>
    /\ UNCHANGED <<clock, last, gold_vars>>

\* add_fund, lines 1344-1348: the code is read and validated
AddFundBegin(c) ==
    /\ frames[c] = Idle
    /\ served < Cardinality(Clients)
    /\ served' = served + 1
    /\ \E raw_code \in RawCodes :
         LET frame == [op |-> "add_fund", pc |-> "check", id |-> served + 1,
                       body |-> [code |-> raw_code], outcome |-> "", fund_data |-> <<>>,
                       results |-> <<>>]
         IN  frames' = [frames EXCEPT ![c] =
                 IF InvalidCode(strip(raw_code))
                 THEN [frame EXCEPT !.results = Reply(FALSE, "invalid code"), !.pc = "done"]
                 ELSE frame]
    /\ UNCHANGED <<fund_watchlist, fund_cache, fund_holdings, holdings_cache, fund_refreshing,
                   holdings_refreshing, fund_portfolios, saved, workers, fetched>>
    /\ UNCHANGED <<clock, last, gold_vars>>

\* add_fund, lines 1350-1352: under the lock, a code of the watchlist is
\* refused
AddFundCheck(c) ==
    /\ frames[c].op = "add_fund"
    /\ frames[c].pc = "check"
    /\ frames' = [frames EXCEPT ![c] =
           IF Contains(fund_watchlist, KeyOf(strip(frames[c].body.code)))
           THEN [frames[c] EXCEPT !.results = Reply(FALSE, "already in the list"), !.pc = "done"]
           ELSE [frames[c] EXCEPT !.pc = "fetch"]]
    /\ UNCHANGED <<fund_watchlist, fund_cache, fund_holdings, holdings_cache, fund_refreshing,
                   holdings_refreshing, fund_portfolios, saved, workers, served, fetched>>
    /\ UNCHANGED <<clock, last, gold_vars>>

\* add_fund, lines 1354-1357: the code is fetched once; no quote, no entry
AddFundFetch(c) ==
    /\ frames[c].op = "add_fund"
    /\ frames[c].pc = "fetch"
    /\ LET key == KeyOf(strip(frames[c].body.code))
       IN  /\ \E outcome \in FetchOutcomes :
                frames' = [frames EXCEPT ![c] =
                    IF outcome = "none"
                    THEN [frames[c] EXCEPT !.outcome = outcome, !.pc = "done",
                                           !.results = Reply(FALSE, "no data for the code")]
                    ELSE [frames[c] EXCEPT !.outcome = outcome, !.pc = "append",
                                           !.fund_data = fetch_fund_data(key, outcome, clock)]]
           /\ fetched' = fetched \cup FetchLog(<<key>>, frames[c].id)
    /\ UNCHANGED <<fund_watchlist, fund_cache, fund_holdings, holdings_cache, fund_refreshing,
                   holdings_refreshing, fund_portfolios, saved, workers, served>>
    /\ UNCHANGED <<clock, last, gold_vars>>

\* add_fund, lines 1359-1361: under the lock the code joins the watchlist
\* and its quote the cache
AddFundAppend(c) ==
    /\ frames[c].op = "add_fund"
    /\ frames[c].pc = "append"
    /\ LET key == KeyOf(strip(frames[c].body.code))
       IN  /\ fund_watchlist' = Append(fund_watchlist, key)
           /\ fund_cache' = [fund_cache EXCEPT ![key] = frames[c].fund_data]
           /\ frames' = [Detach(frames, key) EXCEPT ![c].pc = "save"]
    /\ UNCHANGED <<fund_holdings, holdings_cache, fund_refreshing, holdings_refreshing,
                   fund_portfolios, saved, workers, served, fetched>>
    /\ UNCHANGED <<clock, last, gold_vars>>

InputNow == 1000

InitInput ==
    /\ InitGoldLocals
    /\ InitGoldIdle
    /\ InitFundLocals
    /\ clock = InputNow
    /\ fund_watchlist \in {<<>>, <<"000002">>}
    /\ fund_cache = [code \in FundCodes |-> <<>>]
    /\ fund_holdings \in HoldingLists
    /\ holdings_cache = [timestamp |-> InputNow - 5,
                         response |-> <<build_holdings_response(fund_holdings,
                                            [i \in 1..Len(fund_holdings) |-> <<>>],
                                            fund_cache, InputNow - 5, TRUE)>>]
    /\ fund_portfolios = [code \in FundCodes |-> <<>>]
    /\ saved = [NoDocument EXCEPT !.fund_watchlist = fund_watchlist,
                                  !.fund_holdings = fund_holdings]

NextInput ==
    \E c \in Clients :
         \/ PostHoldingBegin(c)
         \/ PostHoldingFetch(c)
         \/ PostHoldingUpdate(c)
         \/ AddFundBegin(c)
         \/ AddFundCheck(c)
         \/ AddFundFetch(c)
         \/ AddFundAppend(c)
         \/ RequestSave(c)
         \/ RequestEnd(c)

SpecInput == InitInput /\ [][NextInput]_vars

----------------------------------------------------------------------------
(* POST and DELETE /api/holdings side by side: SpecEdit                     *)

\* the holdings at the start: none, one with a note, or two
EditLists ==
    {<<>>,
     <<Holding("000001", DefaultName("000001"), 1000, 1000, "old")>>,
     <<Holding("000002", DefaultName("000002"), 1234, 333, "old"),
       Holding("000001", DefaultName("000001"), 1000, 1000, "")>>}

InitEdit ==
    /\ InitGoldLocals
    /\ InitGoldIdle
    /\ InitFundLocals
    /\ clock = InputNow
    /\ fund_watchlist = <<>>
    /\ fund_cache = [code \in FundCodes |-> <<>>]
    /\ fund_holdings \in EditLists
    /\ holdings_cache = NoHoldingsCache
    /\ fund_portfolios = [code \in FundCodes |-> <<>>]
    /\ saved = [NoDocument EXCEPT !.fund_holdings = fund_holdings]

NextEdit ==
    \E c \in Clients :
         \/ PostHoldingBegin(c)
         \/ PostHoldingFetch(c)
         \/ PostHoldingUpdate(c)
         \/ RequestSave(c)
         \/ DeleteHolding(c)
         \/ RequestEnd(c)

SpecEdit == InitEdit /\ [][NextEdit]_vars

----------------------------------------------------------------------------
(* data.json loaded, saved, and loaded again by the next process:           *)
(* SpecRoundTrip                                                            *)

DocumentKeys == {"manual_records", "price_history", "alert_settings", "fund_watchlist",
                 "fund_holdings", "fund_portfolios"}

\* data.get(key, default)
Get(document, key, default) == IF key \in DOMAIN document THEN document[key] ELSE default

\* alert_settings.update(saved_alerts)
Update(settings, saved_alerts) ==
    [k \in DOMAIN settings \cup DOMAIN saved_alerts |->
        IF k \in DOMAIN saved_alerts THEN saved_alerts[k] ELSE settings[k]]

\* the six objects of the module that data.json persists
Memory == [manual_records |-> manual_records, price_history |-> price_history,
           alert_settings |-> alert_settings, fund_watchlist |-> fund_watchlist,
           fund_holdings |-> fund_holdings, fund_portfolios |-> fund_portfolios]

\* variant: the alert settings are left out of the document
FullDocument_NoAlerts(memory) ==
    [k \in DocumentKeys \ {"alert_settings"} |-> memory[k]]

\* save_data, lines 143-150: the document; list(price_history) is the
\* deque's entries in their order, and json.dump followed by json.load gives
\* back lists, dicts with string keys, numbers, strings and booleans as
\* they were
FullDocument(memory) == [k \in DocumentKeys |-> memory[k]]

\* load_data, lines 166-183, called once when the module is loaded (line
\* 189): the objects are as the module defines them; without a file they
\* stay so
load_data(file) ==
    IF ~file.exists
    THEN /\ manual_records' = <<>>
         /\ price_history' = <<>>
         /\ alert_settings' = DefaultAlerts
         /\ fund_watchlist' = <<>>
         /\ fund_holdings' = <<>>
         /\ fund_portfolios' = NoEntries
    ELSE /\ manual_records' = Get(file.document, "manual_records", <<>>)
         /\ price_history' = LoadHistory(Get(file.document, "price_history", <<>>))
         /\ alert_settings' = Update(DefaultAlerts, Get(file.document, "alert_settings", <<>>))
         /\ fund_watchlist' = Get(file.document, "fund_watchlist", <<>>)
         /\ fund_holdings' = Get(file.document, "fund_holdings", <<>>)
         /\ fund_portfolios' = Get(file.document, "fund_portfolios", NoEntries)

\* no data.json; the document of the record is not looked at
NoFile == [exists |-> FALSE, document |-> [k \in {"manual_records"} |-> <<>>]]

\* the process starts and loads data.json
RoundTripLoad ==
    /\ frames["c1"] = Idle
    /\ load_data(saved)
    /\ frames' = [frames EXCEPT !["c1"] = [op |-> "round_trip", pc |-> "loaded"]]
    /\ UNCHANGED <<clock, fund_cache, holdings_cache, fund_refreshing, holdings_refreshing,
                   saved, workers, served, fetched, last>>
    /\ UNCHANGED <<ticks, calls, sources, lock_owner, pc, fetch_vars, ghost_vars, bg_wake,
                   summary, hours_vars, sched_vars, memory_cache>>

\* time passes before the save
RoundTripWait ==
    /\ frames["c1"].pc = "loaded"
    /\ ticks < MaxTicks
    /\ ticks' = ticks + 1
    /\ clock' = clock + 1
    /\ UNCHANGED <<fund_vars, last, price_history, manual_records>>
    /\ UNCHANGED <<calls, sources, lock_owner, pc, fetch_vars, ghost_vars, bg_wake,
                   summary, hours_vars, sched_vars>>

\* save_data: cleanup_expired_data, then the document replaces data.json;
\* when the write raises, the exception is printed and the file stays
RoundTripSave ==
    /\ frames["c1"].pc = "loaded"
    /\ SaveData
    /\ \E written \in BOOLEAN :
         /\ saved' = IF written
                     THEN [exists |-> TRUE,
                           document |-> FullDocument([Memory EXCEPT
                                            !.price_history = price_history',
                                            !.manual_records = manual_records'])]
                     ELSE saved
         /\ frames' = [frames EXCEPT !["c1"] =
                [op |-> "round_trip", pc |-> "saved", first |-> Memory, saved_at |-> clock,
                 written |-> written]]
    /\ UNCHANGED <<clock, fund_watchlist, fund_cache, fund_holdings, holdings_cache,
                   fund_refreshing, holdings_refreshing, fund_portfolios, workers, served,
                   fetched, last, alert_settings>>
    /\ UNCHANGED <<ticks, calls, sources, lock_owner, pc, fetch_vars, ghost_vars, bg_wake,
                   summary, hours_vars, sched_vars, memory_cache>>

\* the next process loads data.json
RoundTripReload ==
    /\ frames["c1"].pc = "saved"
    /\ load_data(saved)
    /\ frames' = [frames EXCEPT !["c1"].pc = "reloaded"]
    /\ UNCHANGED <<clock, fund_cache, holdings_cache, fund_refreshing, holdings_refreshing,
                   saved, workers, served, fetched, last>>
    /\ UNCHANGED <<ticks, calls, sources, lock_owner, pc, fetch_vars, ghost_vars, bg_wake,
                   summary, hours_vars, sched_vars, memory_cache>>

\* the documents on disk: histories and records around the two cutoffs,
\* alert settings whole or in part, fund data or none, and keys left out
RoundTripAlerts == {[high |-> 600, low |-> 500, enabled |-> TRUE], [high |-> 600]}
RoundTripFunds ==
    {[fund_watchlist |-> <<>>, fund_holdings |-> <<>>, fund_portfolios |-> NoEntries],
     [fund_watchlist |-> <<"000002", "000001">>,
      fund_holdings |-> <<Holding("000001", DefaultName("000001"), 1000, 1000, "old")>>,
      fund_portfolios |-> [NoEntries EXCEPT !["000001"] = <<[timestamp |-> 0]>>]]}

RoundTripFiles ==
    {NoFile}
      \cup {[exists |-> TRUE,
              document |-> [manual_records |-> recs, price_history |-> file,
                            alert_settings |-> alerts,
                            fund_watchlist |-> funds.fund_watchlist,
                            fund_holdings |-> funds.fund_holdings,
                            fund_portfolios |-> funds.fund_portfolios]] :
                recs \in RecordFiles, file \in HistoryFiles, alerts \in RoundTripAlerts,
                funds \in RoundTripFunds}
      \cup {[exists |-> TRUE,
              document |-> [k \in {"manual_records", "price_history"} |->
                               IF k = "manual_records" THEN recs ELSE file]] :
                recs \in RecordFiles, file \in HistoryFiles}

InitRoundTrip ==
    /\ InitGoldLocals
    /\ InitGoldIdle
    /\ InitFundLocals
    /\ clock = 0
    /\ fund_watchlist = <<>>
    /\ fund_cache = NoEntries
    /\ fund_holdings = <<>>
    /\ holdings_cache = NoHoldingsCache
    /\ fund_portfolios = NoEntries
    /\ saved \in RoundTripFiles

NextRoundTrip ==
    \/ RoundTripLoad
    \/ RoundTripWait
    \/ RoundTripSave
    \/ RoundTripReload

SpecRoundTrip == InitRoundTrip /\ [][NextRoundTrip]_vars

----------------------------------------------------------------------------
(* get_holidays and its cache: SpecHolidays.  A date is <<year, day>>, the  *)
(* day being the "MM-DD" of the date string.                                *)

MAX_CACHED_YEARS == 3

\* if year >= 2026: the first year whose holidays are fetched or calculated
FirstFetchedYear == 2026

\* the calls nested in one another that the interpreter allows before it
\* raises RecursionError (sys.getrecursionlimit(), 1000 by default)
RecursionLimit == 3

CachedYears(cache) == {cache[i].year : i \in 1..Len(cache)}

\* self._memory_cache.move_to_end(year)
MoveToEnd(cache, year) ==
    LET other(e) == e.year # year
        same(e) == e.year = year
    IN  SelectSeq(cache, other) \o SelectSeq(cache, same)

\* HolidayCacheManager.get: the entry (<<>> is None); an entry that expired
\* counts only when it was calculated or built in
CacheGet(cache, year, now) ==
    LET hits == {i \in 1..Len(cache) : cache[i].year = year}
        entry == cache[CHOOSE i \in hits : TRUE]
    IN  IF hits = {} THEN <<>>
        ELSE IF entry.expires > now \/ entry.source \in {"builtin", "calculated"}
        THEN <<entry>>
        ELSE <<>>

\* HolidayCacheManager.set: with max_years entries the oldest goes first
CacheSet(cache, entry) ==
    LET kept == IF Len(cache) >= MAX_CACHED_YEARS THEN Tail(cache) ELSE cache
    IN  IF entry.year \in CachedYears(kept)
        THEN [i \in 1..Len(kept) |-> IF kept[i].year = entry.year THEN entry ELSE kept[i]]
        ELSE Append(kept, entry)

IsLeapYear(year) == year % 4 = 0 /\ (year % 100 # 0 \/ year % 400 = 0)

\* lines 287-294: every date moved into the year; replace(year=year) raises
\* for a 29th of February that the year does not have, and the date is left out
Shifted(prev_holidays, year) ==
    {<<year, d[2]>> : d \in {x \in prev_holidays : x[2] # "02-29" \/ IsLeapYear(year)}}

\* lines 298-306: when the entry expires
Expires(source, now) ==
    CASE source = "api" -> now + 30 * 24 * 3600
      [] source = "calculated" -> now + 90 * 24 * 3600
      [] source = "fallback" -> now + 7 * 24 * 3600

CacheEntry(year, holidays, source, now) ==
    [year |-> year, data |-> holidays, source |-> source, expires |-> Expires(source, now)]

\* the innermost call of get_holidays returns: its caller goes on at line
\* 285, or the request has its result
Return(frame, value) ==
    IF Len(frame.stack) = 1
    THEN [frame EXCEPT !.stack = <<>>, !.ret = <<>>, !.results = <<value>>, !.pc = "done"]
    ELSE [frame EXCEPT !.stack = SubSeq(frame.stack, 1, Len(frame.stack) - 1),
                       !.ret = <<value>>, !.pc = "resume"]

\* line 284: prev_holidays = get_holidays(year - 1); a call too deep raises
\* RecursionError, which nothing in get_holidays catches
Fallback(frame, year) ==
    IF Len(frame.stack) >= RecursionLimit
    THEN [frame EXCEPT !.stack = <<>>, !.pc = "raised"]
    ELSE [frame EXCEPT !.stack = Append(frame.stack, year - 1)]

\* what holiday_cache.json holds when the cache manager is made
HolidayYears == {2024, 2025, 2026, 2027}
DiskEntries ==
    {[year |-> 2025, data |-> {<<2025, "01-01">>}, source |-> "api", expires |-> 1],
     [year |-> 2025, data |-> {<<2025, "01-01">>}, source |-> "api", expires |-> 0 - 1],
     [year |-> 2024, data |-> {<<2024, "02-29">>}, source |-> "calculated", expires |-> 0 - 1],
     [year |-> 2026, data |-> {}, source |-> "fallback", expires |-> 1]}
DiskCaches ==
    {<<>>} \cup {<<e>> : e \in DiskEntries}
           \cup {<<e1, e2>> : e1 \in DiskEntries, e2 \in {e \in DiskEntries : e.year = 2026}}

\* what the API, with the adjustments applied, or the calculation gives for
\* the year
Fetchable(year) == {{}, {<<year, "01-01">>}}

\* a caller asks for the holidays of a year; the first call makes the cache
\* manager, which loads holiday_cache.json
GetHolidaysCall(c) ==
    /\ frames[c] = Idle
    /\ served < Cardinality(Clients)
    /\ served' = served + 1
    /\ \E year \in HolidayYears :
         frames' = [frames EXCEPT ![c] =
             [op |-> "get_holidays", pc |-> "enter", id |-> served + 1, year |-> year,
              stack |-> <<year>>, ret |-> <<>>, results |-> <<>>]]
    /\ IF served = 0 THEN memory_cache' \in DiskCaches ELSE UNCHANGED memory_cache
    /\ UNCHANGED <<fund_watchlist, fund_cache, fund_holdings, holdings_cache, fund_refreshing,
                   holdings_refreshing, fund_portfolios, saved, workers, fetched,
                   alert_settings>>
    /\ UNCHANGED <<clock, last, ticks, calls, sources, lock_owner, pc, fetch_vars, ghost_vars,
                   bg_wake, price_history, manual_records, summary, hours_vars, sched_vars>>

\* get_holidays, lines 250-285 of the innermost call: the cache, then for a
\* year from 2026 on the API and the calculation, and when there is nothing
\* the call for the year before
GetHolidaysEnter(c) ==
    /\ frames[c].op = "get_holidays"
    /\ frames[c].pc = "enter"
    /\ LET year == frames[c].stack[Len(frames[c].stack)]
           cached == CacheGet(memory_cache, year, clock)
           looked == IF year \in CachedYears(memory_cache)
                     THEN MoveToEnd(memory_cache, year) ELSE memory_cache
       IN  IF cached # <<>>
           THEN /\ memory_cache' = looked
                /\ frames' = [frames EXCEPT ![c] = Return(frames[c], cached[1].data)]
           ELSE IF year >= FirstFetchedYear
           THEN \E api \in Fetchable(year), calculated \in Fetchable(year) :
                  LET holidays == IF api # {} THEN api ELSE calculated
                      source == IF api # {} THEN "api" ELSE "calculated"
                  IN  IF holidays # {}
                      THEN /\ memory_cache' = CacheSet(looked, CacheEntry(year, holidays, source, clock))
                           /\ frames' = [frames EXCEPT ![c] = Return(frames[c], holidays)]
                      ELSE /\ memory_cache' = looked
                           /\ frames' = [frames EXCEPT ![c] = [Fallback(frames[c], year)
                                                                  EXCEPT !.ret = <<>>]]
           ELSE /\ memory_cache' = looked
                /\ frames' = [frames EXCEPT ![c] = [Fallback(frames[c], year) EXCEPT !.ret = <<>>]]
    /\ UNCHANGED <<fund_watchlist, fund_cache, fund_holdings, holdings_cache, fund_refreshing,
                   holdings_refreshing, fund_portfolios, saved, workers, served, fetched,
                   alert_settings>>
    /\ UNCHANGED <<clock, last, ticks, calls, sources, lock_owner, pc, fetch_vars, ghost_vars,
                   bg_wake, price_history, manual_records, summary, hours_vars, sched_vars>>

\* get_holidays, lines 285-320, after the call for the year before returned
GetHolidaysResume(c) ==
    /\ frames[c].op = "get_holidays"
    /\ frames[c].pc = "resume"
    /\ LET year == frames[c].stack[Len(frames[c].stack)]
           prev_holidays == frames[c].ret[1]
           holidays == IF prev_holidays # {} THEN Shifted(prev_holidays, year) ELSE {}
       IN  /\ memory_cache' = IF holidays # {}
                              THEN CacheSet(memory_cache, CacheEntry(year, holidays, "fallback", clock))
                              ELSE memory_cache
           /\ frames' = [frames EXCEPT ![c] = Return(frames[c], holidays)]
    /\ UNCHANGED <<fund_watchlist, fund_cache, fund_holdings, holdings_cache, fund_refreshing,
                   holdings_refreshing, fund_portfolios, saved, workers, served, fetched,
                   alert_settings>>
    /\ UNCHANGED <<clock, last, ticks, calls, sources, lock_owner, pc, fetch_vars, ghost_vars,
                   bg_wake, price_history, manual_records, summary, hours_vars, sched_vars>>

InitHolidays ==
    /\ InitGoldLocals
    /\ InitGoldIdle
    /\ InitNoFunds
    /\ clock = 0

NextHolidays ==
    \E c \in Clients :
        \/ GetHolidaysCall(c)
        \/ GetHolidaysEnter(c)
        \/ GetHolidaysResume(c)
        \/ RequestEnd(c)

SpecHolidays == InitHolidays /\ [][NextHolidays]_vars

----------------------------------------------------------------------------
(* Properties *)

\* the thread p takes a step
Moves(p) == pc'[p] # pc[p] \/ idx'[p] # idx[p]

\* the thread p finishes the handling of a failed attempt
FailureHandled(p) ==
    /\ pc[p] \in {"trip_check", "trip_reset"}
    /\ pc'[p] \in {"loop", "returned"}

\* the source whose fetcher produced the quote q
SourceOf(q) == CHOOSE i \in 1..Len(SOURCE_TYPES) : SOURCE_TYPES[i] = q.source

EnabledSet == {i \in SourceIds : sources[i].enabled}

\* C1: a failed attempt that is the MAX_FAIL_COUNT-th consecutive failure of
\* its source leaves the source with mute_until = the call's now_ts +
\* MUTE_DURATION and fail_count = 0; a call skips a source exactly when its
\* now_ts is below the source's mute_until.
C1_ThirdFailureMutes ==
    [][\A p \in Procs :
         /\ (third[p] /\ FailureHandled(p)) =>
               /\ sources'[Cur(p)].mute_until = now_ts[p] + MUTE_DURATION
               /\ sources'[Cur(p)].fail_count = 0
         /\ (pc[p] = "loop" /\ Moves(p)) =>
               (pc'[p] = "fetching" <=> ~(now_ts[p] < sources[Cur(p)].mute_until))
      ]_vars

\* C2: when a call has handled a quote returned by a source's fetcher, that
\* source has fail_count = 0 and mute_until = 0.
C2_SuccessResets ==
    [][\A p \in Procs :
         (pc[p] = "ok_mute" /\ pc'[p] = "returned") =>
             /\ sources'[Cur(p)].fail_count = 0
             /\ sources'[Cur(p)].mute_until = 0
      ]_vars

\* C3: a call that returns a quote returns the quote of a source that is
\* enabled, was not muted and whose fetcher succeeded; every enabled source of
\* higher priority was either muted or invoked and failed in this call, and no
\* source of lower priority was invoked.
C3_FirstSuccessWins ==
    \A p \in Procs :
        (pc[p] = "returned" /\ result[p].data # <<>>) =>
            LET i == SourceOf(result[p].data[1])
            IN  /\ i \in EnabledSet
                /\ i \in invoked[p] \ (failed[p] \cup seen_muted[p])
                /\ \A j \in EnabledSet :
                     /\ j < i => (j \in seen_muted[p] \/ (j \in invoked[p] /\ j \in failed[p]))
                     /\ j > i => j \notin invoked[p]

C3_Witness ==
    \E p \in Procs :
        /\ pc[p] = "returned"
        /\ result[p].data # <<>>
        /\ SourceOf(result[p].data[1]) > 1
        /\ failed[p] # {}

\* C4: a source that is disabled, or that a call found with mute_until above
\* its now_ts, is not invoked by that call and none of its breaker fields is
\* written by that call.
C4_SkippedUntouched ==
    \A p \in Procs : \A j \in SourceIds :
        (~sources[j].enabled \/ j \in seen_muted[p]) =>
            (j \notin invoked[p] /\ j \notin wrote[p])

C4_Witness ==
    \E p \in Procs :
        /\ pc[p] = "returned"
        /\ seen_muted[p] # {}
        /\ invoked[p] # {}

InBreakerUpdate(p) == pc[p] \in {"ok_mute", "inc_write", "trip_check", "trip_mute", "trip_reset"}

\* C6: a thread updates a source's fail_count and mute_until only while it
\* holds the lock, and no failure is lost: whenever no thread is in the middle
\* of an update, each fail_count is the number of failures counted so far.
C6_BreakerUnderLock ==
    /\ \A p \in Procs : InBreakerUpdate(p) => lock_owner = p
    /\ (\A p \in Procs : ~InBreakerUpdate(p)) =>
           \A i \in SourceIds : sources[i].fail_count = consec[i]

\* C7: every quote in price_history has a positive price.
C7_StoredPricePositive ==
    \A i \in 1..Len(price_history) : price_history[i].price > 0

C10_HistoryOrdered == Sorted(price_history)

\* C11: get_24h_summary returns None exactly when price_history is empty;
\* otherwise high_24h and low_24h are the highest and the lowest retained
\* price, avg_24h is the mean of the retained prices to the cent with
\* high >= avg >= low, volatility is high - low and count is the number of
\* retained entries.
C11_Summary ==
    last.op = "summary" =>
        LET h == last.before
        IN  IF h = <<>> THEN summary = <<>>
            ELSE /\ summary # <<>>
                 /\ LET r == summary[1]
                        n == Len(h)
                        total == SumPrices([i \in 1..n |-> h[i].price])
                    IN  /\ \A i \in 1..n : r.low_24h <= h[i].price /\ h[i].price <= r.high_24h
                        /\ \E i \in 1..n : h[i].price = r.high_24h
                        /\ \E i \in 1..n : h[i].price = r.low_24h
                        /\ r.high_24h >= r.avg_24h /\ r.avg_24h >= r.low_24h
                        /\ r.avg_24h * n - total <= 5 * n
                        /\ total - r.avg_24h * n <= 5 * n
                        /\ r.volatility = r.high_24h - r.low_24h
                        /\ r.count = n

C11_Witness ==
    /\ last.op = "summary"
    /\ summary # <<>>
    /\ summary[1].count = MAX_HISTORY_SIZE
    /\ summary[1].high_24h > summary[1].avg_24h
    /\ summary[1].avg_24h > summary[1].low_24h

\* the schedule as the claims state it: Monday to Friday without the market's
\* holidays are trading days
Holidays(market_type) == UNION {h.days : h \in calendar[market_type]}
TradingDay(date, market_type) == date % 7 \in 0..4 /\ date \notin Holidays(market_type)
NightDay(date) == date % 7 \in 0..3 /\ TradingDay(date, "gold")

\* the gold phase of the instant t by the published timetable, the auctions
\* ending at the given times of day
GoldTimetable(t, day_auction_end, night_auction_end) ==
    LET d == DateOf(t)
        x == TimeOf(t)
    IN  IF x < HM(2, 30)
        THEN IF NightDay(d - 1) THEN "night_session" ELSE "closed"
        ELSE IF ~TradingDay(d, "gold") THEN "closed"
        ELSE IF HM(8, 50) <= x /\ x < day_auction_end THEN "day_auction"
        ELSE IF HM(9, 0) <= x /\ x < HM(15, 30) THEN "day_session"
        ELSE IF d % 7 \in 0..3 /\ HM(19, 50) <= x /\ x < night_auction_end THEN "night_auction"
        ELSE IF d % 7 \in 0..3 /\ HM(20, 0) <= x THEN "night_session"
        ELSE "closed"

\* auctions 08:50-08:59 and 19:50-19:59
ScheduledGoldPhase(t) == GoldTimetable(t, HM(8, 59), HM(19, 59))

\* the same with each auction lasting until its session starts
GoldPhaseNoGap(t) == GoldTimetable(t, HM(9, 0), HM(20, 0))

\* the fund market is open at the instant t by the published timetable
ScheduledFundOpen(t) ==
    LET x == TimeOf(t)
    IN  /\ TradingDay(DateOf(t), "fund")
        /\ \/ (HM(9, 30) <= x /\ x < HM(11, 30))
           \/ (HM(13, 0) <= x /\ x < HM(15, 0))

\* C14: on a gold trading day, from 02:30 on, is_trading_time is true exactly
\* in 08:50-08:59 (day_auction), 09:00-15:30 (day_session) and, Monday to
\* Thursday, 19:50-19:59 (night_auction) and 20:00-24:00 (night_session); on a
\* Friday nothing from 15:30 on is trading.
C14_GoldWindows ==
    (status.gold # <<>> /\ TradingDay(DateOf(clock), "gold") /\ TimeOf(clock) >= HM(2, 30)) =>
        LET g == status.gold[1]
        IN  /\ g.trading_phase = ScheduledGoldPhase(clock)
            /\ g.is_trading_time <=> (ScheduledGoldPhase(clock) # "closed")
            /\ (DateOf(clock) % 7 = 4 /\ TimeOf(clock) >= HM(15, 30)) => ~g.is_trading_time

C14_Witness ==
    /\ status.gold # <<>>
    /\ TradingDay(DateOf(clock), "gold")
    /\ DateOf(clock) % 7 = 4
    /\ TimeOf(clock) = HM(19, 50)
    /\ ~status.gold[1].is_trading_time

\* C15: at an instant in 00:00-02:30 of day D the gold status is night_session,
\* trading, with next_event night_close at 02:30 of D, exactly when D-1 is a
\* Monday to Thursday trading day, whatever D itself is.
C15_EarlyHours ==
    (status.gold # <<>> /\ TimeOf(clock) < HM(2, 30)) =>
        LET g == status.gold[1]
        IN  NightDay(DateOf(clock) - 1) <=>
               /\ g.trading_phase = "night_session"
               /\ g.is_trading_time
               /\ g.next_event = "night_close"
               /\ g.next_event_time = Combine(DateOf(clock), HM(2, 30))

\* C16 (as stated): on a Friday at 21:00 the gold status has phase
\* night_session and its next boundary is on the following Monday.
C16_FridayNightSession ==
    (status.gold # <<>> /\ DateOf(clock) % 7 = 4 /\ TimeOf(clock) = HM(21, 0)) =>
        LET g == status.gold[1]
        IN  /\ g.trading_phase = "night_session"
            /\ DateOf(g.next_event_time) = DateOf(clock) + 3

\* C16 (amended): on a Friday at 21:00 the gold status has phase closed, is not
\* trading, and its next event is day_open at 09:00; when that Friday and the
\* following Monday are trading days, at 09:00 of that Monday.
C16_FridayNightClosed ==
    (status.gold # <<>> /\ DateOf(clock) % 7 = 4 /\ TimeOf(clock) = HM(21, 0)) =>
        LET g == status.gold[1]
            monday == DateOf(clock) + 3
        IN  /\ g.trading_phase = "closed"
            /\ ~g.is_trading_time
            /\ g.next_event = "day_open"
            /\ TimeOf(g.next_event_time) = HM(9, 0)
            /\ (TradingDay(DateOf(clock), "gold") /\ TradingDay(monday, "gold")) =>
                   g.next_event_time = Combine(monday, HM(9, 0))

C16_Witness ==
    /\ status.gold # <<>>
    /\ DateOf(clock) % 7 = 4
    /\ TimeOf(clock) = HM(21, 0)
    /\ TradingDay(DateOf(clock), "gold")
    /\ TradingDay(DateOf(clock) + 3, "gold")

\* C17: on a gold trading day at a time t with 09:00 <= t < 15:30 the status is
\* day_session, trading, next_event day_close at 15:30 of the same day, and
\* time_until_next is the seconds from t to 15:30.
C17_DaySession ==
    (/\ status.gold # <<>>
     /\ TradingDay(DateOf(clock), "gold")
     /\ HM(9, 0) <= TimeOf(clock)
     /\ TimeOf(clock) < HM(15, 30)) =>
        LET g == status.gold[1]
        IN  /\ g.trading_phase = "day_session"
            /\ g.is_trading_time
            /\ g.next_event = "day_close"
            /\ g.next_event_time = Combine(DateOf(clock), HM(15, 30))
            /\ g.time_until_next = HM(15, 30) - TimeOf(clock)

C17_Witness ==
    /\ status.gold # <<>>
    /\ DateOf(clock) % 7 = 1
    /\ TradingDay(DateOf(clock), "gold")
    /\ TimeOf(clock) = HM(9, 15)
    /\ status.gold[1].time_until_next = 6 * 3600 + 15 * 60

\* the instants after t, within a week, at which a timetable can change phase
EdgesAfter(t) ==
    {c \in {Combine(d, x) : d \in DateOf(t)..(DateOf(t) + 7),
                            x \in {0, HM(2, 30), HM(8, 50), HM(8, 59), HM(9, 0), HM(9, 30),
                                   HM(11, 30), HM(13, 0), HM(15, 0), HM(15, 30),
                                   HM(19, 50), HM(19, 59), HM(20, 0)}} : c > t}

\* C18: both statuses have next_event_time after the instant, time_until_next
\* the (non-negative) seconds between them, and no phase boundary of the
\* timetable lies before next_event_time: it is the earliest one.  (An auction
\* is taken to last until its session starts, so that the end of an auction
\* window is no boundary of its own.)
C18_NextEventEarliest ==
    /\ status.gold # <<>> =>
         LET g == status.gold[1]
         IN  /\ g.next_event_time > clock
             /\ g.time_until_next >= 0
             /\ g.time_until_next = g.next_event_time - clock
             /\ GoldPhaseNoGap(g.next_event_time) # GoldPhaseNoGap(g.next_event_time - 1)
             /\ \A c \in EdgesAfter(clock) :
                    c < g.next_event_time => GoldPhaseNoGap(c) = GoldPhaseNoGap(c - 1)
    /\ status.fund # <<>> =>
         LET f == status.fund[1]
         IN  /\ f.next_event_time > clock
             /\ f.time_until_next >= 0
             /\ f.time_until_next = f.next_event_time - clock
             /\ ScheduledFundOpen(f.next_event_time) # ScheduledFundOpen(f.next_event_time - 1)
             /\ \A c \in EdgesAfter(clock) :
                    c < f.next_event_time => ScheduledFundOpen(c) = ScheduledFundOpen(c - 1)

\* C19: the fund status is trading exactly on a Monday to Friday that is no
\* holiday at a time in 09:30-11:30 or 13:00-15:00; in the morning the next
\* event is lunch_break at 11:30, in the afternoon market_close at 15:00.
C19_FundWindows ==
    status.fund # <<>> =>
        LET f == status.fund[1]
            x == TimeOf(clock)
        IN  /\ f.is_trading_time <=> ScheduledFundOpen(clock)
            /\ (f.trading_phase = "trading") <=> ScheduledFundOpen(clock)
            /\ (ScheduledFundOpen(clock) /\ x < HM(11, 30)) =>
                   /\ f.next_event = "lunch_break"
                   /\ f.next_event_time = Combine(DateOf(clock), HM(11, 30))
            /\ (ScheduledFundOpen(clock) /\ x >= HM(13, 0)) =>
                   /\ f.next_event = "market_close"
                   /\ f.next_event_time = Combine(DateOf(clock), HM(15, 0))

C19_Witness ==
    /\ status.fund # <<>>
    /\ status.fund[1].is_trading_time
    /\ status.fund[1].next_event = "market_close"
    /\ TimeOf(clock) = HM(15, 0) - 1

\* the reads of the clock made in iteration n of the scheduler
ReadsOf(n) == {i \in 1..Len(observed) : observed[i].poll = n}

\* C12: the scheduler loop never ends: an exception raised in an iteration is
\* caught, the handler sleeps ERROR_BACKOFF = 30 seconds and nothing else, and
\* after that sleep the loop is at the top of another iteration.
C12_LoopNeverEnds ==
    /\ [][pc["bg"] = "except"
            => pc'["bg"] = "sleeping" /\ bg_wake' = clock + ERROR_BACKOFF /\ clock' = clock]_vars
    /\ [][pc["bg"] = "sleeping" => pc'["bg"] = "top" /\ clock' >= bg_wake]_vars
    /\ (pc["bg"] = "except") ~> (pc["bg"] = "top")

\* the loop is back at the top after an iteration that raised before it
\* updated the status, no sooner than the backoff allows
C12_Witness ==
    /\ pc["bg"] = "top"
    /\ calls >= 1
    /\ \A i \in ReadsOf(calls) : observed[i].kind # "status"
    /\ \E i \in ReadsOf(calls) : bg_wake = observed[i].at + ERROR_BACKOFF
    /\ clock = bg_wake

\* the reads between the first status the loop kept and its latest call of
\* check_trading_events
FirstStatusRead ==
    IF \E i \in 1..Len(observed) : observed[i].kind = "status"
    THEN CHOOSE i \in 1..Len(observed) :
             /\ observed[i].kind = "status"
             /\ \A j \in 1..(i - 1) : observed[j].kind # "status"
    ELSE Len(observed) + 1

LastEventsRead ==
    IF \E i \in 1..Len(observed) : observed[i].kind = "events"
    THEN CHOOSE i \in 1..Len(observed) :
             /\ observed[i].kind = "events"
             /\ \A j \in (i + 1)..Len(observed) : observed[j].kind # "events"
    ELSE 0

\* the crossings of the mapped edge of event e that the loop saw happen: two
\* reads in a row with the phases of the edge
CrossingsSeen(e) ==
    {i \in FirstStatusRead..(LastEventsRead - 1) :
        e \in MappedEvents("gold", observed[i].phase, observed[i + 1].phase)}

\* the times the event e was emitted
Emissions(e) == {k \in 1..Len(events) : events[k].event = e}

GoldEvents == {m[3] : m \in event_map("gold")}

\* C13: as the scheduler polls, every crossing of a mapped gold phase edge
\* produces its named event exactly once: each event has been emitted as many
\* times as its edge was crossed under the eyes of the loop.
C13_OncePerCrossing ==
    \A e \in GoldEvents : Cardinality(Emissions(e)) = Cardinality(CrossingsSeen(e))

\* the interval computed at line 24 of iteration n
IntervalReads(n) == {i \in ReadsOf(n) : observed[i].kind = "interval"}

\* C20: get_fetch_interval returns 5 for gold and 15 for fund exactly when the
\* status of that market at that instant has is_trading_time, and 300
\* otherwise; the sleep at the end of an iteration lasts the interval that
\* was computed at the start of the same iteration.
C20_FetchInterval ==
    /\ [](\A i \in 1..Len(observed) :
            observed[i].kind = "interval"
                => /\ observed[i].value = FETCH_INTERVAL_TRADING
                        <=> get_trading_status(observed[i].at).is_trading_time
                   /\ observed[i].value = FETCH_INTERVAL_NON_TRADING
                        <=> ~get_trading_status(observed[i].at).is_trading_time)
    /\ [](last.op = "interval"
            => /\ last.arg = <<FUND_INTERVAL_TRADING>>
                    <=> get_fund_trading_status(last.now).is_trading_time
               /\ last.arg = <<FETCH_INTERVAL_NON_TRADING>>
                    <=> ~get_fund_trading_status(last.now).is_trading_time)
    /\ [][pc["bg"] = "sleep" /\ pc'["bg"] = "sleeping"
            => /\ IntervalReads(calls) # {}
               /\ \A i \in IntervalReads(calls) : bg_wake' = clock + observed[i].value]_vars

\* the fund interval was 15 when the loop started, and the loop sleeps the
\* 5 seconds it computed for gold at the start of this iteration
C20_Witness ==
    /\ last.op = "interval"
    /\ last.arg = <<FUND_INTERVAL_TRADING>>
    /\ pc["bg"] = "sleeping"
    /\ \E i \in IntervalReads(calls) : bg_wake = clock + observed[i].value
    /\ \E i \in 1..Len(observed) :
         observed[i].kind = "interval" /\ observed[i].value = FETCH_INTERVAL_TRADING

\* the valuation that was computed last
Valued == frames["c1"].op = "valuation"
Valuation == holdings_cache.response[1]

\* x is the amount exact rounded to the cent
IsCents(x, exact) == x % 10 = 0 /\ 2 * (x - exact) <= 10 /\ 2 * (exact - x) <= 10

\* rate is num / den * 100 rounded to 1/100 percent, den > 0
IsRate(rate, num, den) ==
    /\ 2 * (rate * den - num * 10000) <= den
    /\ 2 * (num * 10000 - rate * den) <= den

\* the quote behind a holding has a price above zero
Usable(code) == fund_cache[code] # <<>> /\ fund_cache[code][1].price > 0

\* C25: build_holdings_response gives, for a holding with a usable price,
\* market_value = price x shares, cost = cost_price x shares, profit_amount =
\* market_value - cost and profit_rate = (price - cost_price) / cost_price x
\* 100, rounded to two places (1.000, 1000 units, 1.050: 50.00 and 5.00); for
\* a holding without usable price the first, third and fourth are 0 and cost
\* is still cost_price x shares.
C25_Valuation ==
    Valued /\ Valuation # ZeroDivisionError =>
        \A i \in 1..Len(fund_holdings) :
            LET h == fund_holdings[i]
                r == Valuation.data[i]
            IN  /\ IsCents(r.cost, h.cost_price * h.shares)
                /\ IF Usable(h.code)
                   THEN LET price == fund_cache[h.code][1].price
                        IN  /\ IsCents(r.market_value, price * h.shares)
                            /\ IsCents(r.profit_amount, price * h.shares - h.cost_price * h.shares)
                            /\ h.cost_price > 0
                                  => IsRate(r.profit_rate, price - h.cost_price, h.cost_price)
                            /\ h.cost_price = 1000 /\ h.shares = 1000 /\ price = 1050
                                  => r.profit_amount = 50000 /\ r.profit_rate = 500
                   ELSE r.market_value = 0 /\ r.profit_amount = 0 /\ r.profit_rate = 0

\* the holding of the example next to one whose fund has no quote
C25_Witness ==
    /\ Valued
    /\ Len(fund_holdings) = 2
    /\ fund_holdings[1].cost_price = 1000 /\ fund_holdings[1].shares = 1000
    /\ Usable("000001") /\ fund_cache["000001"][1].price = 1050
    /\ Valuation.data[1].profit_amount = 50000
    /\ Valuation.data[1].profit_rate = 500
    /\ fund_cache["000002"] = <<>>
    /\ fund_holdings[2].cost_price = 1000
    /\ Valuation.data[2].cost = 1000000
    /\ Valuation.data[2].market_value = 0

\* C26: build_holdings_response never ends in a division error;
\* total_profit_rate is 0 when the total cost is 0 (also without holdings),
\* a holding's profit_rate is 0 when its cost_price is 0, and today_profit is
\* 0 when the previous net value has to be derived from a change of -100.
C26_NoDivisionError ==
    Valued =>
        /\ Valuation # ZeroDivisionError
        /\ (\A i \in 1..Len(fund_holdings) : fund_holdings[i].cost_price * fund_holdings[i].shares = 0)
              => Valuation.summary.total_profit_rate = 0
        /\ \A i \in 1..Len(fund_holdings) :
              LET h == fund_holdings[i]
                  q == fund_cache[h.code]
              IN  /\ h.cost_price = 0 => Valuation.data[i].profit_rate = 0
                  /\ q # <<>> /\ q[1].dwjz <= 0 /\ q[1].change = 0 - 100
                        => Valuation.data[i].today_profit = 0

\* a holding that cost nothing, priced by a quote without net value whose
\* change is -100
C26_Witness ==
    /\ Valued
    /\ Len(fund_holdings) = 1
    /\ fund_holdings[1].cost_price = 0
    /\ Usable("000001")
    /\ fund_cache["000001"][1].dwjz = 0
    /\ fund_cache["000001"][1].change = 0 - 100
    /\ Valuation.summary.total_profit_rate = 0
    /\ Valuation.data[1].today_profit = 0

\* the shared state of the fund domain and the threads that work on it
FundState ==
    <<fund_watchlist, fund_cache, fund_holdings, holdings_cache, fund_refreshing,
      holdings_refreshing, fund_portfolios, saved, workers>>

\* refreshes of one kind in flight: the workers, and the calls that took the
\* flag and are about to start one
Spawning(kind) == {c \in Clients : frames[c].pc = IF kind = "fund" THEN "fund_spawn" ELSE "holdings_spawn"}

AtMostOneWorker ==
    \A kind \in {"fund", "holdings"} :
        Cardinality(WorkersOf(kind)) + Cardinality(Spawning(kind)) <= 1

\* a call that finds the flag of its domain set
CallWhileRefreshing(c) ==
    \/ frames[c].pc = "fund_refresh" /\ fund_refreshing /\ frames'[c].pc # "fund_refresh"
    \/ frames[c].pc = "holdings_refresh" /\ holdings_refreshing /\ frames'[c].pc # "holdings_refresh"

\* C21: at any time at most one fund-cache refresh worker and at most one
\* holdings-cache refresh worker is running, whatever the interleaving of
\* the requests, and a call of refresh_fund_cache_async or
\* refresh_holdings_cache_async made while the flag of its domain is set
\* starts no worker and changes no state: it returns at once.
C21_SingleFlight ==
    /\ []AtMostOneWorker
    /\ [][\A c \in Clients :
            CallWhileRefreshing(c) =>
                /\ UNCHANGED FundState
                /\ frames'[c].pc = "after_refresh"
                /\ ~frames'[c].started]_vars

\* both kinds of worker are running, and a call with codes to refresh has
\* come back without starting one
C21_Witness ==
    /\ WorkersOf("fund") # {}
    /\ WorkersOf("holdings") # {}
    /\ \E c \in Clients :
         /\ frames[c].op = "refresh"
         /\ frames[c].pc = "after_refresh"
         /\ frames[c].refresh # <<>>
         /\ ~frames[c].started

\* the requests of GET /api/funds whose response is ready
Answered == {c \in Clients : frames[c].op = "get_funds" /\ frames[c].pc = "done"}

\* C22: the response of GET /api/funds holds exactly one result per code of
\* the watchlist, in the order of the watchlist, whichever codes came from
\* the cache or from a fetch and in whatever order the pool's workers
\* completed; a code whose fetch failed is not left out.
C22_OnePerCodeInOrder ==
    \A c \in Answered :
        /\ Len(frames[c].results) = Len(frames[c].current_watchlist)
        /\ \A i \in 1..Len(frames[c].results) :
               frames[c].results[i].code = frames[c].current_watchlist[i]

\* a response over three codes: one came from the cache, two were fetched,
\* and one of the two fetches failed
C22_Witness ==
    \E c \in Answered :
        /\ Len(frames[c].current_watchlist) = 3
        /\ Len(frames[c].codes_to_fetch) = 2
        /\ \E i, j \in 1..2 : frames[c].fetched_data_list[i] = <<>> /\ frames[c].fetched_data_list[j] # <<>>

\* the age a request saw for a code: the cache entry it classified, against
\* the time it took at its start
SeenAge(c, code) == frames[c].current_time - frames[c].seen[code][1].timestamp

SeenFresh(c, code) == frames[c].seen[code] # <<>> /\ SeenAge(c, code) < 60
SeenStale(c, code) == frames[c].seen[code] # <<>> /\ SeenAge(c, code) >= 60 /\ SeenAge(c, code) < 300
SeenNone(c, code) == frames[c].seen[code] = <<>>

\* an answered request over three codes: one fresh, one stale, one uncached
BulkScenario(c, fresh, stale, none) ==
    /\ c \in Answered
    /\ Len(frames[c].current_watchlist) = 3
    /\ {fresh, stale, none} = {frames[c].current_watchlist[i] : i \in 1..3}
    /\ SeenFresh(c, fresh)
    /\ SeenStale(c, stale)
    /\ SeenNone(c, none)

\* the codes the request fetched while it was served
FetchedBy(c) == {e.code : e \in {x \in fetched : x.by = frames[c].id}}

\* what the claim says of the request
BulkOutcome(c, fresh, stale, none) ==
    /\ Len(frames[c].results) = 3
    /\ \A i \in 1..3 : frames[c].results[i].code = frames[c].current_watchlist[i]
    /\ FetchedBy(c) = {none}
    /\ \E i \in 1..3 :
         frames[c].results[i] = Annotate(frames[c].seen[stale][1], CachedMark)
    /\ frames[c].calls = 1
    /\ frames[c].refresh = <<stale>>

TriggerStarts ==
    \A c \in Clients :
        (frames[c].op = "get_funds" /\ frames[c].pc = "fund_refresh" /\ frames'[c].pc # "fund_refresh")
            => (frames'[c].started <=> ~fund_refreshing)

ResultFor(c, code) ==
    CHOOSE r \in {frames[c].results[i] : i \in 1..Len(frames[c].results)} : r.code = code

\* what the claim says of the i-th code a request fetched; before is
\* fund_cache as the request found it when it merged its fetches
FetchedResult(c, i) ==
    LET code == frames[c].codes_to_fetch[i]
        quote == frames[c].fetched_data_list[i]
        old_cache == frames[c].before[code]
    IN  IF quote # <<>> THEN ResultFor(c, code) = quote[1]
        ELSE IF old_cache # <<>> THEN ResultFor(c, code) = Annotate(old_cache[1], ExpiredMark)
        ELSE ResultFor(c, code) = Placeholder(code)

\* the merge of a request leaves every quote it fetched in fund_cache
MergeCaches ==
    \A c \in Clients :
        (frames[c].op = "get_funds" /\ frames[c].pc = "merge" /\ frames'[c].pc # "merge")
            => \A i \in 1..Len(frames[c].codes_to_fetch) :
                   frames[c].fetched_data_list[i] # <<>>
                       => fund_cache'[frames[c].codes_to_fetch[i]] = frames[c].fetched_data_list[i]

\* C24: when the synchronous fetch of a code fails in get_funds, the result
\* for the code is the previous cache entry marked as expired if there is
\* one, and otherwise the placeholder record (price 0, source Error); when
\* the fetch succeeds, the result is the new quote and the cache entry of
\* the code is the new quote.
C24_FetchResults ==
    /\ [](\A c \in Answered : \A i \in 1..Len(frames[c].codes_to_fetch) : FetchedResult(c, i))
    /\ [][MergeCaches]_vars

\* the requests of GET /api/holdings whose response is ready
HoldingsAnswered == {c \in Clients : frames[c].op = "get_holdings" /\ frames[c].pc = "done"}

\* the age of the cached response a request found, and the three cases of the
\* claim
FoundAge(c) == frames[c].now_ts - frames[c].cached_ts
FoundUsable(c) == frames[c].fast_mode /\ ~frames[c].force_refresh /\ frames[c].cached_response # <<>>
FoundFresh(c) == FoundUsable(c) /\ FoundAge(c) < 10
FoundStale(c) == FoundUsable(c) /\ FoundAge(c) >= 10 /\ FoundAge(c) < 300

\* a fresh response is returned as it is, with no fetch and no refresh
FreshServed ==
    \A c \in HoldingsAnswered :
        FoundFresh(c) =>
            /\ frames[c].results = frames[c].cached_response
            /\ frames[c].calls = 0
            /\ ~\E e \in fetched : e.by = frames[c].id

\* a stale response is returned marked stale, with no fetch
StaleServed ==
    \A c \in HoldingsAnswered :
        FoundStale(c) =>
            /\ frames[c].results = <<MarkedStale(frames[c].cached_response[1])>>
            /\ frames[c].calls = 1
            /\ ~\E e \in fetched : e.by = frames[c].id

\* the call made for a stale response leaves a holdings refresh in flight:
\* the one it started, or the one that was running
StaleRefreshes ==
    \A c \in Clients :
        (frames[c].op = "get_holdings" /\ frames[c].pc = "holdings_refresh"
            /\ frames'[c].pc # "holdings_refresh")
            => holdings_refreshing'

\* in every other case the request stores the response it returns, computed
\* over the holdings, with the time of the request
Recomputed ==
    \A c \in Clients :
        (frames[c].op = "get_holdings" /\ frames[c].pc \in {"store", "store_empty"}
            /\ frames'[c].pc = "done")
            => /\ ~FoundFresh(c) /\ ~FoundStale(c)
               /\ holdings_cache' = [timestamp |-> frames[c].now_ts, response |-> frames'[c].results]
               /\ CodesOf(frames'[c].results[1].data) = CodesOf(frames[c].holdings)

\* C27: GET /api/holdings in fast mode without refresh returns a cached
\* response younger than 10 s with no fetch and no refresh; one of age 10 s
\* to 300 s it returns marked stale and triggers the single-flight
\* background refresh; in every other case it recomputes the response from
\* the holdings and stores it in holdings_cache with its timestamp.
C27_HoldingsCachePolicy ==
    /\ [](FreshServed /\ StaleServed)
    /\ [][StaleRefreshes /\ Recomputed]_vars

\* the calls of fetch_fund_portfolio that have returned
Returned == {c \in Clients : frames[c].op = "fetch_fund_portfolio" /\ frames[c].pc = "done"}

\* the re-fetch of the composition failed: the request raised, or its status
\* was bad, or its text was short or could not be parsed
RefetchFailed(c) == frames[c].outcome \in {"error", "bad_status", "short", "unparsable"}

\* C28: when the re-fetch of a fund's composition fails (request error, bad
\* status, short or unparsable response, with or without force_refresh) and
\* a composition persisted earlier exists, even an expired one, the result
\* is built from that composition and marked cached_stale; only when none
\* is persisted is the secondary source used with equal weights.
C28_StaleFallback ==
    \A c \in Returned :
        RefetchFailed(c) =>
            /\ frames[c].found # <<>> =>
                  /\ frames[c].results # <<>>
                  /\ frames[c].results[1].holdings = frames[c].found[1].holdings_info
                  /\ frames[c].results[1].estimate_mode = "cached_stale"
            /\ (frames[c].results # <<>> /\ frames[c].results[1].estimate_mode = "equal_weight")
                  => frames[c].found = <<>>

\* the entry for the fund is younger than the TTL
FreshEntry(code) ==
    fund_portfolios[code] # <<>> /\ clock - fund_portfolios[code][1].timestamp < 86400

\* a call issues the request of a composition
IssuesFetch(c) ==
    frames[c].op = "fetch_fund_portfolio" /\ frames[c].pc = "request" /\ frames'[c].pc # "request"

\* a call stores the composition it fetched
StoresFetch(c) ==
    frames[c].op = "fetch_fund_portfolio" /\ frames[c].pc = "store" /\ frames'[c].pc # "store"

\* C29: a fund's composition is fetched at most once per 24 h window: while
\* fund_portfolios holds an entry for the fund younger than
\* PORTFOLIO_CACHE_TTL no call of fetch_fund_portfolio, concurrent calls
\* included, issues a composition fetch, and a successful fetch stores the
\* composition with its fetch time.
C29_OncePerWindow ==
    [][\A c \in Clients :
        /\ IssuesFetch(c) => ~FreshEntry(frames[c].fund_code)
        /\ StoresFetch(c) =>
              fund_portfolios'[frames[c].fund_code] =
                  <<Composition(frames[c].now_ts, "new", NewStocks)>>]_vars

\* the same for the calls that do not force a refresh
UnforcedOncePerWindow ==
    [][\A c \in Clients :
        (IssuesFetch(c) /\ ~frames[c].force_refresh) => ~FreshEntry(frames[c].fund_code)]_vars

\* the code of a body, without the blanks around it, is six digits
SixDigits(body) ==
    LET code == strip(body.code)
    IN  Len(code) = 6 /\ \A i \in 1..6 : code[i] \in DigitChars

\* the number of a body: <<>> when it cannot be parsed
Parsed(raw) ==
    CASE raw.kind = "number" -> <<raw.value>>
      [] raw.kind = "string" -> raw.parsed
      [] raw.kind = "missing" -> <<0>>
      [] raw.kind = "null" -> <<>>

\* a body of POST /api/holdings that the claim calls malformed
MalformedHolding(body) ==
    \/ ~SixDigits(body)
    \/ Parsed(body.cost_price) = <<>>
    \/ Parsed(body.shares) = <<>>
    \/ Parsed(body.cost_price)[1] <= 0
    \/ Parsed(body.shares)[1] <= 0

\* a request of POST /api/funds/add that the claim calls malformed: the code
\* is not six digits, or the fetch of the code gave nothing
MalformedFund(frame) == ~SixDigits(frame.body) \/ frame.outcome = "none"

\* the request of client c takes a step and is malformed
MalformedStep(c) ==
    /\ frames'[c] # frames[c]
    /\ \/ frames'[c].op = "add_or_update_holding" /\ MalformedHolding(frames'[c].body)
       \/ frames'[c].op = "add_fund" /\ MalformedFund(frames'[c])

Refused(frame) == frame.pc = "done" /\ frame.results # <<>> /\ ~frame.results[1].success

\* C30: malformed input is rejected with no state change: POST /api/holdings
\* with a code that is not six digits, a number that cannot be parsed, or
\* cost_price <= 0 or shares <= 0, and POST /api/funds/add with a code that
\* is not six digits or cannot be fetched, answer success = false and leave
\* fund_holdings, fund_watchlist, fund_cache, holdings_cache and the saved
\* document as they were.
C30_MalformedRejected ==
    [][\A c \in Clients :
        MalformedStep(c) =>
            /\ Refused(frames'[c])
            /\ UNCHANGED <<fund_holdings, fund_watchlist, fund_cache, holdings_cache, saved>>]_vars

\* a holding with shares 0 and a fund that could not be fetched have both
\* been refused
C30_Witness ==
    \E c, d \in Clients :
        /\ frames[c].op = "add_or_update_holding"
        /\ SixDigits(frames[c].body)
        /\ Parsed(frames[c].body.cost_price) # <<>>
        /\ Parsed(frames[c].body.cost_price)[1] > 0
        /\ Parsed(frames[c].body.shares) = <<0>>
        /\ Refused(frames[c])
        /\ frames[d].op = "add_fund"
        /\ frames[d].outcome = "none"
        /\ Refused(frames[d])

GoldPhases == {"closed", "day_auction", "day_session", "night_auction", "night_session"}
FundPhases == {"closed", "trading"}

\* the flag of a status agrees with its phase
FlagMatchesPhase(s) == s.is_trading_time <=> s.trading_phase # "closed"

\* C40: in every status that get_trading_status and get_fund_trading_status
\* return, is_trading_time is true exactly when trading_phase is not
\* "closed", and trading_phase is one of closed, day_auction, day_session,
\* night_auction, night_session (gold) or closed, trading (fund).
C40_FlagAndPhase ==
    /\ status.gold # <<>> =>
          FlagMatchesPhase(status.gold[1]) /\ status.gold[1].trading_phase \in GoldPhases
    /\ status.fund # <<>> =>
          FlagMatchesPhase(status.fund[1]) /\ status.fund[1].trading_phase \in FundPhases

\* a gold status in the night session and a fund status outside the session
\* have been returned for one instant
C40_Witness ==
    /\ status.gold # <<>>
    /\ status.fund # <<>>
    /\ status.gold[1].trading_phase = "night_session"
    /\ status.gold[1].is_trading_time
    /\ status.fund[1].trading_phase = "closed"
    /\ ~status.fund[1].is_trading_time
----------------------------------------------------------------------------
\* the unrounded market_value and profit_amount of the i-th row
RowValue(i) ==
    LET h == fund_holdings[i]
    IN  IF Usable(h.code) THEN fund_cache[h.code][1].price * h.shares ELSE 0

RowProfit(i) ==
    LET h == fund_holdings[i]
    IN  IF Usable(h.code) THEN RowValue(i) - h.cost_price * h.shares ELSE 0

RECURSIVE SumRows(_, _)
SumRows(Row(_), n) == IF n = 0 THEN 0 ELSE Row(n) + SumRows(Row, n - 1)

\* C39: in every response of build_holdings_response summary.total_value is
\* the sum of the rows' market_value and summary.total_profit is the sum of
\* the rows' profit_amount, both taken before rounding, also when some
\* holdings have no usable price.
C39_TotalsAreSums ==
    Valued /\ Valuation # ZeroDivisionError =>
        /\ IsCents(Valuation.summary.total_value, SumRows(RowValue, Len(fund_holdings)))
        /\ IsCents(Valuation.summary.total_profit, SumRows(RowProfit, Len(fund_holdings)))


----------------------------------------------------------------------------
\* what a successful fetch of a code gives at the instant now
SuccessfulFetches(code, now) ==
    {fetch_fund_data(code, outcome, now) : outcome \in FetchOutcomes \ {"none"}}

\* C33: a fund_cache entry only changes by being replaced as a whole with
\* the result of a new successful fetch of the same code; no step of
\* get_funds, of the refresh workers or of get_holdings changes a field of a
\* cached entry, and a failed fetch leaves the entry as it was.
C33_ReplacedWhole ==
    [][\A code \in FundCodes :
          fund_cache'[code] # fund_cache[code]
              => fund_cache'[code] \in SuccessfulFetches(code, clock)]_vars


----------------------------------------------------------------------------
\* C36: fund_watchlist never holds a code twice, however concurrent requests
\* of POST /api/funds/add interleave: the membership check, the validating
\* fetch and the append act as one step towards other adds of the same code.
C36_NoDuplicateFund ==
    \A i, j \in 1..Len(fund_watchlist) :
        i # j => fund_watchlist[i] # fund_watchlist[j]


----------------------------------------------------------------------------
\* the response was computed from this list of holdings
ComputedFrom(response, holdings) ==
    /\ Len(response.data) = Len(holdings)
    /\ \A i \in 1..Len(holdings) :
          /\ response.data[i].code = holdings[i].code
          /\ response.data[i].cost_price = holdings[i].cost_price
          /\ response.data[i].shares = holdings[i].shares

\* C35: once add_or_update_holding or delete_holding has completed, no later
\* GET /api/holdings is served a cached response computed from the holdings
\* as they were before: the invalidation of holdings_cache is not
\* overwritten by a result for the old holdings, also when a background
\* refresh or a synchronous computation was in flight during the change.
C35_NoOldResponse ==
    holdings_cache.response # <<>> => ComputedFrom(holdings_cache.response[1], fund_holdings)


----------------------------------------------------------------------------
\* the entries of the list with the code
Held(holdings, code) == {i \in 1..Len(holdings) : holdings[i].code = code}

\* the request writes the holding of its body in this step
Upserts(c) ==
    /\ frames[c].op = "add_or_update_holding"
    /\ frames[c].pc = "update"
    /\ frames'[c].pc # "update"

\* what the request's body and the name it fetched make of an entry
Overwritten(c, h) ==
    /\ h.code = KeyOf(strip(frames[c].body.code))
    /\ h.cost_price = float(frames[c].body.cost_price)[1]
    /\ h.shares = float(frames[c].body.shares)[1]
    /\ h.note = ""
    /\ h.name = IF frames[c].fund_data # <<>> THEN frames[c].fund_data[1].name
                ELSE DefaultName(h.code)

\* a POST for a code that is held overwrites the entry where it is, and one
\* for a new code appends one entry
UpsertStep ==
    \A c \in Clients :
        Upserts(c) =>
            LET key == KeyOf(strip(frames[c].body.code))
                held == Held(fund_holdings, key)
            IN  IF held # {}
                THEN /\ Len(fund_holdings') = Len(fund_holdings)
                     /\ \A i \in 1..Len(fund_holdings) :
                           IF i \in held THEN Overwritten(c, fund_holdings'[i])
                           ELSE fund_holdings'[i] = fund_holdings[i]
                ELSE /\ Len(fund_holdings') = Len(fund_holdings) + 1
                     /\ SubSeq(fund_holdings', 1, Len(fund_holdings)) = fund_holdings
                     /\ Overwritten(c, fund_holdings'[Len(fund_holdings')])

\* a DELETE leaves no entry with its code and every other entry
DeleteStep ==
    \A c \in Clients :
        (frames[c] = Idle /\ frames'[c].op = "delete_holding") =>
            /\ Held(fund_holdings', frames'[c].code) = {}
            /\ Len(fund_holdings') = Len(fund_holdings)
                                       - Cardinality(Held(fund_holdings, frames'[c].code))
            /\ \A i \in 1..Len(fund_holdings) :
                  fund_holdings[i].code # frames'[c].code
                      => \E j \in 1..Len(fund_holdings') : fund_holdings'[j] = fund_holdings[i]

\* C31: after any sequence of POST and DELETE /api/holdings, concurrent ones
\* included, fund_holdings has at most one entry per code: a POST for a code
\* that is held overwrites cost_price, shares, note and name of its entry in
\* place and appends nothing, a POST for a new code appends exactly one
\* entry, and a DELETE removes every entry with its code.
C31_OnePerCode ==
    /\ [](\A code \in FundCodes : Cardinality(Held(fund_holdings, code)) <= 1)
    /\ [][UpsertStep /\ DeleteStep]_vars

\* two requests posted the same code, which was not held, and both are
\* through; the list has the one entry the second left
C31_Witness ==
    /\ \A c \in Clients :
          /\ frames[c].op = "add_or_update_holding"
          /\ frames[c].pc = "done"
          /\ frames[c].results = Reply(TRUE, "saved")
          /\ KeyOf(strip(frames[c].body.code)) = "000002"
    /\ frames["c1"].body.cost_price # frames["c2"].body.cost_price
    /\ Cardinality(Held(fund_holdings, "000002")) = 1
    /\ Len(fund_holdings) = 2
    /\ fund_holdings[1].code = "000001"
    /\ fund_holdings[1].note = "old"


----------------------------------------------------------------------------
\* C37: once refresh_fund_cache_async or refresh_holdings_cache_async has
\* set its flag, the flag is reset in the end, whether the worker's fetches
\* succeed, return nothing or raise: no flag stays set for ever, and a later
\* call can start a new refresh.
C37_FlagReset ==
    /\ fund_refreshing ~> ~fund_refreshing
    /\ holdings_refreshing ~> ~holdings_refreshing

\* a fund refresh raised, its flag is free again, and the call that came
\* after it started a worker of its own
C37_Witness ==
    /\ [what |-> "raised", code |-> "fund", by |-> 0] \in fetched
    /\ ~fund_refreshing
    /\ WorkersOf("fund") = {}
    /\ frames["c2"].op = "refresh" /\ frames["c2"].pc = "after_refresh" /\ frames["c2"].started
    /\ frames["c2"].refresh # <<>>
    /\ holdings_refreshing = FALSE /\ WorkersOf("holdings") = {}
    /\ served = Cardinality(Clients)


----------------------------------------------------------------------------
\* the list without the entries at the positions of S
RECURSIVE DropAt(_, _, _)
DropAt(seq, S, i) ==
    IF i > Len(seq) THEN <<>>
    ELSE (IF i \in S THEN <<>> ELSE <<seq[i]>>) \o DropAt(seq, S, i + 1)

\* second is first without some entries, each of which could be purged
SameButPurged(first, second, Purgeable(_)) ==
    \E S \in SUBSET (1..Len(first)) :
        /\ second = DropAt(first, S, 1)
        /\ \A i \in S : Purgeable(first[i])

\* data.json was loaded, saved, and loaded again
RoundTripped == frames["c1"].op = "round_trip" /\ frames["c1"].pc = "reloaded"

\* what the two loads gave is the same, but for purged entries of the
\* history that were older than 24 h and purged records that could go
RoundTrip(RecordPurgeable(_, _)) ==
    RoundTripped =>
        LET first == frames["c1"].first
            now == frames["c1"].saved_at
        IN  /\ alert_settings = first.alert_settings
            /\ fund_watchlist = first.fund_watchlist
            /\ fund_holdings = first.fund_holdings
            /\ fund_portfolios = first.fund_portfolios
            /\ SameButPurged(first.price_history, price_history,
                             LAMBDA e : e.timestamp < HistoryThreshold(now))
            /\ SameButPurged(first.manual_records, manual_records,
                             LAMBDA r : RecordPurgeable(r, now))

OlderThanSevenDays(r, now) == r.timestamp < RecordThreshold(now)
SevenDaysOldOrOlder(r, now) == r.timestamp <= RecordThreshold(now)

\* C32: load_data, then save_data, then load_data gives the same
\* manual_records, price_history, alert_settings, fund_watchlist,
\* fund_holdings and fund_portfolios as the first load, except for history
\* entries older than 24 h and manual records older than 7 days that the
\* save purged.
C32_RoundTrip == RoundTrip(OlderThanSevenDays)

\* C32 as the code has it: the same, where the manual records the save
\* purged are those 7 days old or older.
C32_RoundTripInclusive == RoundTrip(SevenDaysOldOrOlder)

\* the document had alert settings, fund data, a history whose first entry
\* had expired and a record exactly 7 days old; the save purged both and
\* wrote the rest, which the second load gave back
C32_Witness ==
    /\ RoundTripped
    /\ frames["c1"].written
    /\ alert_settings = [high |-> 600, low |-> 0, enabled |-> FALSE]
    /\ fund_watchlist = <<"000002", "000001">>
    /\ Len(frames["c1"].first.price_history) = MAX_HISTORY_SIZE
    /\ Len(price_history) = MAX_HISTORY_SIZE - 1
    /\ Len(frames["c1"].first.manual_records) = 2
    /\ Len(manual_records) = 1
    /\ frames["c1"].first.manual_records[1].timestamp = RecordThreshold(frames["c1"].saved_at)


----------------------------------------------------------------------------
\* C34: network fetches happen outside the shared lock: neither the
\* background loop, nor a refresh worker, nor an API handler invokes a quote
\* fetcher while it holds the lock.
C34_FetchOutsideLock ==
    \A p \in Procs : pc[p] = "fetching" => lock_owner # p


----------------------------------------------------------------------------
\* C38: get_holidays(year) comes to an end and returns a set for every year
\* and every state of the cache, also for a year before 2026 with nothing
\* cached and when neither the API nor the calculation gives anything: the
\* calls for the year before reach a call that returns.
C38_ReturnsSet ==
    \A c \in Clients : frames[c].op = "get_holidays" => frames[c].pc # "raised"


====
